---- MODULE Spec2Model ----
(***************************************************************************)
(* eyeqwst: the gateway client (crates/quaddlecl/src/client/gateway.rs)    *)
(* and the session supervisor gateway_service (src/gateway.rs); further    *)
(* down, on their own, a direct user of the Gateway API, the wire codec,   *)
(* Snowflake::timestamp (model/snowflake.rs) and the REST client Http      *)
(* (client/http.rs); then the supervisor with a full output channel, and   *)
(* the application's components: MainScreen (src/main_screen.rs),          *)
(* ChannelEditStrip (src/channel_select.rs), HistoryQMessage and           *)
(* HistoryQMessageId (src/messageview.rs).                                 *)
(*                                                                         *)
(* The supervisor is one cooperative task; pc is the await point it is     *)
(* suspended at.  The peer (the Quaddle server) and the application that   *)
(* drains the output stream are the environment.                           *)
(***************************************************************************)
EXTENDS Integers, Sequences, FiniteSets, TLC

VARIABLES
    url,        \* gateway_service argument `url`
    state,      \* GatewayState of gateway_service: "Disconnected" / "Connected"
    pc,         \* await point of gateway_service
    gateway,    \* the Gateway value held by the task (NoGateway when none)
    sock,       \* the WebSocket + network connection behind `gateway`
    pending,    \* the GatewayMessage handed to output.send(..).await
    output,     \* buffer of the mpsc::Sender<GatewayMessage> given by subscription::channel
    published,  \* every message the output stream has accepted, in order
    receiver,   \* mpsc::UnboundedReceiver of the Connected state (NoReceiver when none)
    handles,    \* handles[q]: number of live Connection clones (senders) of queue q
    new_message, \* the command taken from the queue, handed to gateway.send(..).await
    idres,      \* result of the last Gateway::identify call (NoResult before the first)
    requests,   \* upgrade requests issued by Gateway::connect, in order
    attempts,   \* number of Gateway::connect calls made so far
    disposed,   \* per Gateway dropped so far: whether its Drop started a close handshake
    pulled,     \* result of the last try_next().await of a direct user of Gateway
    http,       \* the Http client (client/http.rs): its token field
    http_log,   \* the HTTP requests the Http client has sent, in order
    http_ret,   \* the last call on the Http client and what it returned
    codec,      \* a value taken through serde_json::to_string and from_str
    sf,         \* a Snowflake id and the timestamp computed for it
    screen,     \* the MainScreen: selected_channel, gateway_state, channel_edit_strip, messages
    config,     \* Config: the channel list of each user's account on the server
    conns,      \* per Connection handed to the application: its queue and whether its receiver lives
    inflight,   \* the Commands (HTTP calls) the application has issued and not yet got back
    handled,    \* the message last passed to an update function, with the Command it returned
    qmsg,       \* a HistoryQMessage
    HISTORY_QMSG_ID, \* static HISTORY_QMSG_ID: AtomicU32
    callers     \* per thread: where it is in HistoryQMessageId::new and the ids it was given

vars ==
    <<url, state, pc, gateway, sock, pending, output, published, receiver,
      handles, new_message, idres, requests, attempts, disposed,
      pulled, http, http_log, http_ret, codec, sf,
      screen, config, conns, inflight, handled, qmsg, HISTORY_QMSG_ID, callers>>

(* The variables of gateway_service and of the Gateway it holds. *)
svars ==
    <<url, state, pc, gateway, sock, pending, output, published, receiver,
      handles, new_message, idres, requests, attempts, disposed>>

(* The variables of the library parts gateway_service does not touch. *)
(* The variables of the application's screens and widgets. *)
uivars == <<screen, config, conns, inflight, handled, qmsg, HISTORY_QMSG_ID, callers>>

libvars == <<pulled, http, http_log, http_ret, codec, sf, uivars>>

----------------------------------------------------------------------------
(* Bounds of the model. *)

MaxAttempts == 3

MaxFrames == 2

MaxCommands == 2

(* Ids (UserId, MessageId, ChannelId) of the values taken through the codec. *)
MaxId == 2

(* How many of the sampled limb values a Snowflake id is built from. *)
MaxLimbSamples == 3

(* How many requests the Http client may send. *)
MaxRequests == 3

(* subscription::channel(TypeId::of::<Connect>(), 50, ..) *)
OutputBuffer == 50

----------------------------------------------------------------------------
(* Values. *)

None == [some |-> FALSE]

Some(x) == [some |-> TRUE, val |-> x]

Ok(x) == [ok |-> TRUE, val |-> x]

Err(e) == [ok |-> FALSE, err |-> e]

NoResult == [ok |-> FALSE, err |-> [kind |-> "NotCalled"]]

Pending == [ready |-> FALSE]

Ready(x) == [ready |-> TRUE, item |-> x]

NoGateway == [present |-> FALSE]

NoSock == [open |-> FALSE]

NoReceiver == [present |-> FALSE]

NoMessage == [type |-> "None"]

TOKEN == "token"

USER_AGENT == "eyeqwst"

Users == {[id |-> 1, name |-> "alice"]}

SessionIds == {"s1", "s2"}

Reasons == {"bad token"}

Messages == {[id |-> 7, content |-> "hi"]}

ChannelIds == {7}

(* Urls the supervisor may be started with: one hierarchical, one that    *)
(* cannot be a base (path_segments_mut fails on it).                       *)
ValidUrl == [base |-> "http://localhost:8080", cannot_be_a_base |-> FALSE, path |-> <<>>]

BadUrl == [base |-> "mailto:admin@localhost", cannot_be_a_base |-> TRUE, path |-> <<>>]

(* A hierarchical url whose path is not the root. *)
PathUrl == [base |-> "http://localhost:8080", cannot_be_a_base |-> FALSE, path |-> <<"quaddle">>]

Urls == {ValidUrl, PathUrl, BadUrl}

(* enum Error *)
WebsocketError == [kind |-> "Websocket"]

InvalidUrl(u) == [kind |-> "InvalidUrl", url |-> u]

SerializationError == [kind |-> "Serialization"]

UnexpectedBinaryMessage == [kind |-> "UnexpectedBinaryMessage"]

GatewayError(reason) == [kind |-> "GatewayError", reason |-> reason]

UnexpectedEvent(ev) == [kind |-> "UnexpectedEvent", ev |-> ev]

UnexpectedSocketClose == [kind |-> "UnexpectedSocketClose"]

(* enum ClientGatewayMessage *)
Identify(token) == [type |-> "Identify", token |-> token]

Subscribe(channel_id) == [type |-> "Subscribe", channel_id |-> channel_id]

(* enum GatewayEvent *)
EvReady(session_id, user) == [type |-> "Ready", session_id |-> session_id, user |-> user]

EvError(reason) == [type |-> "Error", reason |-> reason]

EvMessageCreate(message) == [type |-> "MessageCreate", message |-> message]

GatewayEvents ==
    {EvReady(s, u) : s \in SessionIds, u \in Users}
        \cup {EvError(r) : r \in Reasons}
        \cup {EvMessageCreate(m) : m \in Messages}

(* enum GatewayMessage *)
MsgConnected(conn, user, session_id) ==
    [type |-> "Connected", conn |-> conn, user |-> user, session_id |-> session_id]

MsgConnectionError(e) == [type |-> "ConnectionError", error |-> e]

MsgDisconnected == [type |-> "Disconnected"]

MsgEvent(ev) == [type |-> "Event", event |-> ev]

----------------------------------------------------------------------------
(* Wire codec: serde, internally tagged, snake_case. A text frame is the   *)
(* JSON object it spells.                                                  *)

(* to_string with the variant names as tags (no rename_all). *)
to_string_pascal(msg) ==
    IF msg.type = "Identify"
    THEN [op |-> "Identify", token |-> msg.token]
    ELSE [op |-> "Subscribe", channel_id |-> msg.channel_id]

to_string(msg) ==
    IF msg.type = "Identify"
    THEN [op |-> "identify", token |-> msg.token]
    ELSE [op |-> "subscribe", channel_id |-> msg.channel_id]

from_str(txt) ==
    IF "event" \notin DOMAIN txt THEN Err(SerializationError)
    ELSE IF txt.event = "ready" /\ {"session_id", "user"} \subseteq DOMAIN txt
         THEN Ok(EvReady(txt.session_id, txt.user))
    ELSE IF txt.event = "error" /\ "reason" \in DOMAIN txt
         THEN Ok(EvError(txt.reason))
    ELSE IF txt.event = "message_create" /\ "message" \in DOMAIN txt
         THEN Ok(EvMessageCreate(txt.message))
    ELSE Err(SerializationError)

(* What the server writes for an event. *)
JsonOf(ev) ==
    IF ev.type = "Ready"
    THEN [event |-> "ready", session_id |-> ev.session_id, user |-> ev.user]
    ELSE IF ev.type = "Error"
    THEN [event |-> "error", reason |-> ev.reason]
    ELSE [event |-> "message_create", message |-> ev.message]

WsText(txt) == [kind |-> "Text", txt |-> txt]

WsBinary == [kind |-> "Binary"]

(* A read of the socket that fails (connection reset). *)
WsReadError == [kind |-> "ReadError"]

(* What the peer can put on a socket. *)
PeerFrames ==
    {WsText(JsonOf(ev)) : ev \in GatewayEvents}
        \cup {WsText([event |-> "typing_start"]), WsBinary, WsReadError}

----------------------------------------------------------------------------
(* The socket: reqwest_websocket::WebSocket over one network connection.   *)
(*   rx         frames the peer has sent, in order                         *)
(*   rd         how many of them the client has read                       *)
(*   wire       text frames the client has written                         *)
(*   peerClosed the peer has closed its side                               *)
(*   closeSent  the client has started the close handshake                 *)

NewSock ==
    [open |-> TRUE, rx |-> <<>>, rd |-> 0, wire |-> <<>>, peerClosed |-> FALSE,
     closeSent |-> FALSE]

(* WebSocket::poll_next: the next unread frame, None once the peer has     *)
(* closed and everything was read, Pending otherwise.                      *)
ws_poll_next(s) ==
    IF s.rd < Len(s.rx)
    THEN LET f == s.rx[s.rd + 1]
         IN  IF f.kind = "ReadError" THEN Ready(Some(Err(WebsocketError)))
             ELSE Ready(Some(Ok(f)))
    ELSE IF s.peerClosed THEN Ready(None)
    ELSE Pending

(* Gateway::connect, the value it builds on success. *)
GatewayNew == [present |-> TRUE, closed |-> TRUE]

(* Gateway::connect: path_segments_mut().push("app") *)
push_app(u) == [u EXCEPT !.path = Append(u.path, "app")]

(* Gateway::connect: the result, given whether the upgrade request (when   *)
(* one is made) succeeds.                                                  *)
connect(u, upgraded) ==
    IF u.cannot_be_a_base THEN Err(InvalidUrl(u))
    ELSE IF upgraded THEN Ok(GatewayNew)
    ELSE Err(WebsocketError)

(* upgrade_requests with the request issued before the url is checked. *)
upgrade_requests_first(u) == <<[url |-> push_app(u), user_agent |-> USER_AGENT]>>

(* Gateway::connect: the upgrade requests one call issues. *)
upgrade_requests(u) ==
    IF u.cannot_be_a_base THEN <<>>
    ELSE <<[url |-> push_app(u), user_agent |-> USER_AGENT]>>

(* impl Stream for Gateway: poll_next *)
poll_next(gw, s) ==
    IF gw.closed THEN Ready(None)
    ELSE LET r == ws_poll_next(s)
         IN  IF ~r.ready THEN Pending
             ELSE IF ~r.item.some THEN Ready(None)
             ELSE IF ~r.item.val.ok THEN Ready(Some(Err(r.item.val.err)))
             ELSE IF r.item.val.val.kind = "Binary"
                  THEN Ready(Some(Err(UnexpectedBinaryMessage)))
             ELSE Ready(Some(from_str(r.item.val.val.txt)))

(* The socket after poll_next: a frame is consumed only when the inner     *)
(* WebSocket was polled and had one.                                       *)
sock_after_poll(gw, s) ==
    IF ~gw.closed /\ s.rd < Len(s.rx) THEN [s EXCEPT !.rd = s.rd + 1] ELSE s

(* impl FusedStream for Gateway: is_terminated *)
is_terminated(gw) == gw.closed

(* TryStreamExt::try_next: Option<Result<T,E>> to Result<Option<T>,E> *)
try_next(item) ==
    IF ~item.some THEN Ok(None)
    ELSE IF item.val.ok THEN Ok(Some(item.val.val))
    ELSE Err(item.val.err)

(* Gateway::identify, after the Identify frame is sent: the match on       *)
(* self.try_next().await?                                                  *)
identify(item) ==
    LET r == try_next(item)
    IN  IF ~r.ok THEN Err(r.err)
        ELSE IF ~r.val.some THEN Err(UnexpectedSocketClose)
        ELSE IF r.val.val.type = "Ready"
             THEN Ok([session_id |-> r.val.val.session_id, user |-> r.val.val.user])
        ELSE IF r.val.val.type = "Error" THEN Err(GatewayError(r.val.val.reason))
        ELSE Err(UnexpectedEvent(r.val.val))

(* impl Sink for Gateway: start_send writes one text frame *)
start_send(s, msg) == [s EXCEPT !.wire = Append(s.wire, to_string(msg))]

(* A write can fail only on a connection the peer has closed. *)
SendOutcomes(s) == IF s.peerClosed THEN {TRUE, FALSE} ELSE {TRUE}

(* impl Sink for Gateway: poll_close, i.e. WebSocket::poll_close, starts   *)
(* the close handshake.                                                    *)
poll_close(s) == [s EXCEPT !.closeSent = TRUE]

(* SinkExt::close(&mut self) builds the Close future; poll_close runs only *)
(* when that future is polled.                                             *)
close(s, polled) == IF polled THEN poll_close(s) ELSE s

(* impl Drop for Gateway: drop(self.close()). The Close future is dropped  *)
(* without ever being polled; the result is the socket as the drop of the  *)
(* field ws then finds it. Dropping ws releases the connection; on the     *)
(* native transport that sends no close frame.                             *)
GatewayDrop(s) == close(s, FALSE)

(* mpsc::Sender::send(..).await completes once the buffer has room:        *)
(* capacity is the buffer plus one slot per sender.                        *)
output_has_room(q) == Len(q) < OutputBuffer + 1

----------------------------------------------------------------------------
(* The library parts outside gateway_service, before any use.              *)

NoCall == [op |-> "none"]

NoHttp == [present |-> FALSE]

NoValue == [stage |-> "none"]

(* The screens and widgets of the application, before any use. *)
UiIdle ==
    /\ screen = NoValue
    /\ config = <<>>
    /\ conns = <<>>
    /\ inflight = {}
    /\ handled = NoMessage
    /\ qmsg = NoValue
    /\ HISTORY_QMSG_ID = <<0, 0>>
    /\ callers = <<>>

ClientIdle ==
    /\ pulled = NoResult
    /\ http = NoHttp
    /\ http_log = <<>>
    /\ http_ret = NoCall
    /\ codec = NoValue
    /\ sf = NoValue

LibIdle ==
    /\ ClientIdle
    /\ UiIdle

----------------------------------------------------------------------------
(* gateway_service *)

Init ==
    /\ url \in Urls
    /\ state = "Disconnected"
    /\ pc = "connect"
    /\ gateway = NoGateway
    /\ sock = NoSock
    /\ pending = NoMessage
    /\ output = <<>>
    /\ published = <<>>
    /\ receiver = NoReceiver
    /\ handles = [q \in 1..MaxAttempts |-> 0]
    /\ new_message = NoMessage
    /\ idres = NoResult
    /\ requests = <<>>
    /\ attempts = 0
    /\ disposed = <<>>
    /\ LibIdle

(* ConnectFail with the error swallowed: nothing is handed to the output   *)
(* stream and the loop goes straight back to Gateway::connect.             *)
ConnectFailSilent ==
    /\ state = "Disconnected" /\ pc = "connect"
    /\ attempts < MaxAttempts
    /\ ~connect(url, FALSE).ok
    /\ attempts' = attempts + 1
    /\ requests' = requests \o upgrade_requests(url)
    /\ UNCHANGED <<url, state, pc, gateway, sock, pending, output, published,
                   receiver, handles, new_message, idres>>
    /\ UNCHANGED <<disposed, libvars>>

(* Gateway::connect(url.clone(), USER_AGENT) fails: the match arm          *)
(* Err(e) => output.send(ConnectionError(e)).await; continue               *)
(* On a url that cannot be a base no request is made.                      *)
ConnectFail ==
    /\ state = "Disconnected" /\ pc = "connect"
    /\ attempts < MaxAttempts
    /\ LET res == connect(url, FALSE)
       IN  /\ ~res.ok
           /\ pending' = MsgConnectionError(res.err)
    /\ attempts' = attempts + 1
    /\ requests' = requests \o upgrade_requests(url)
    /\ pc' = "send_error"
    /\ UNCHANGED <<url, state, gateway, sock, output, published, receiver,
                   handles, new_message, idres>>
    /\ UNCHANGED <<disposed, libvars>>

(* ConnectOk with the url handed to Gateway::connect by reference instead  *)
(* of as url.clone(): the pushed segment stays in the stored url.          *)
ConnectOkNoClone ==
    /\ state = "Disconnected" /\ pc = "connect"
    /\ attempts < MaxAttempts
    /\ LET res == connect(url, TRUE)
       IN  /\ res.ok
           /\ gateway' = res.val
    /\ attempts' = attempts + 1
    /\ requests' = requests \o upgrade_requests(url)
    /\ url' = push_app(url)
    /\ sock' = NewSock
    /\ pc' = "identify_send"
    /\ UNCHANGED <<state, pending, output, published, receiver, handles, new_message, idres>>
    /\ UNCHANGED <<disposed, libvars>>

(* Gateway::connect succeeds: the match arm Ok(x) => x *)
ConnectOk ==
    /\ state = "Disconnected" /\ pc = "connect"
    /\ attempts < MaxAttempts
    /\ LET res == connect(url, TRUE)
       IN  /\ res.ok
           /\ gateway' = res.val
    /\ attempts' = attempts + 1
    /\ requests' = requests \o upgrade_requests(url)
    /\ sock' = NewSock
    /\ pc' = "identify_send"
    /\ UNCHANGED <<url, state, pending, output, published, receiver, handles, new_message, idres>>
    /\ UNCHANGED <<disposed, libvars>>

(* Gateway::identify: self.send(Identify { token }).await? *)
IdentifySend ==
    /\ pc = "identify_send"
    /\ \E sent \in SendOutcomes(sock) :
        IF sent
        THEN /\ sock' = start_send(sock, Identify(TOKEN))
             /\ pc' = "identify_recv"
             /\ UNCHANGED <<idres, pending>>
        ELSE /\ idres' = Err(WebsocketError)
             /\ pending' = MsgConnectionError(WebsocketError)
             /\ pc' = "send_error"
             /\ UNCHANGED sock
    /\ UNCHANGED <<url, state, gateway, output, published, receiver, handles,
                   new_message, requests, attempts>>
    /\ UNCHANGED <<disposed, libvars>>

(* Gateway::identify: match self.try_next().await?, then the match on its  *)
(* result in gateway_service; on Ok the command queue is created.          *)
IdentifyRecv ==
    /\ pc = "identify_recv"
    /\ LET p == poll_next(gateway, sock)
       IN  /\ p.ready
           /\ idres' = identify(p.item)
           /\ sock' = sock_after_poll(gateway, sock)
           /\ IF idres'.ok
              THEN /\ receiver' = [present |-> TRUE, id |-> attempts, queue |-> <<>>,
                                   terminated |-> FALSE]
                   /\ handles' = [handles EXCEPT ![attempts] = 1]
                   /\ pending' = MsgConnected([queue |-> attempts], idres'.val.user,
                                              idres'.val.session_id)
                   /\ pc' = "send_connected"
              ELSE /\ pending' = MsgConnectionError(idres'.err)
                   /\ pc' = "send_error"
                   /\ UNCHANGED <<receiver, handles>>
    /\ UNCHANGED <<url, state, gateway, output, published, new_message, requests,
                   attempts>>
    /\ UNCHANGED <<disposed, libvars>>

(* SendError that leaves the loop after publishing (a `break` or a         *)
(* propagated send error in place of `continue`).                          *)
SendErrorReturn ==
    /\ pc = "send_error"
    /\ output_has_room(output)
    /\ output' = Append(output, pending)
    /\ published' = Append(published, pending)
    /\ pending' = NoMessage
    /\ gateway' = NoGateway
    /\ sock' = NoSock
    /\ pc' = "returned"
    /\ UNCHANGED <<url, state, receiver, handles, new_message, idres, requests, attempts>>
    /\ disposed' = IF gateway.present THEN Append(disposed, GatewayDrop(sock).closeSent)
                   ELSE disposed
    /\ UNCHANGED libvars

(* SendError that keeps the Gateway of the failed attempt and goes back to *)
(* identify on it instead of dialling again.                               *)
SendErrorKeepsChannel ==
    /\ pc = "send_error"
    /\ output_has_room(output)
    /\ output' = Append(output, pending)
    /\ published' = Append(published, pending)
    /\ pending' = NoMessage
    /\ IF gateway.present
       THEN pc' = "identify_send" /\ UNCHANGED <<gateway, sock>>
       ELSE pc' = "connect" /\ gateway' = NoGateway /\ sock' = NoSock
    /\ UNCHANGED <<url, state, receiver, handles, new_message, idres, requests, attempts>>
    /\ UNCHANGED <<disposed, libvars>>

(* SendError with output.try_send in place of output.send(..).await: when *)
(* the buffer is full the message is dropped and the loop goes on.         *)
SendErrorTrySend ==
    /\ pc = "send_error"
    /\ IF output_has_room(output)
       THEN /\ output' = Append(output, pending)
            /\ published' = Append(published, pending)
       ELSE UNCHANGED <<output, published>>
    /\ pending' = NoMessage
    /\ gateway' = NoGateway
    /\ sock' = NoSock
    /\ pc' = "connect"
    /\ UNCHANGED <<url, state, receiver, handles, new_message, idres, requests, attempts>>
    /\ disposed' = IF gateway.present THEN Append(disposed, GatewayDrop(sock).closeSent)
                   ELSE disposed
    /\ UNCHANGED libvars

(* output.send(GatewayMessage::ConnectionError(e)).await; continue         *)
(* The Gateway of the attempt, if any, goes out of scope and is dropped.   *)
SendError ==
    /\ pc = "send_error"
    /\ output_has_room(output)
    /\ output' = Append(output, pending)
    /\ published' = Append(published, pending)
    /\ pending' = NoMessage
    /\ gateway' = NoGateway
    /\ sock' = NoSock
    /\ pc' = "connect"
    /\ UNCHANGED <<url, state, receiver, handles, new_message, idres, requests, attempts>>
    /\ disposed' = IF gateway.present THEN Append(disposed, GatewayDrop(sock).closeSent)
                   ELSE disposed
    /\ UNCHANGED libvars

(* output.send(GatewayMessage::Connected { .. }).await;                    *)
(* state = GatewayState::Connected { gateway, receiver }                   *)
SendConnected ==
    /\ pc = "send_connected"
    /\ output_has_room(output)
    /\ output' = Append(output, pending)
    /\ published' = Append(published, pending)
    /\ pending' = NoMessage
    /\ state' = "Connected"
    /\ pc' = "select"
    /\ UNCHANGED <<url, gateway, sock, receiver, handles, new_message, idres, requests, attempts>>
    /\ UNCHANGED <<disposed, libvars>>

(* mpsc::Sender::try_send: the message is dropped when there is no room. *)
try_send(q, msg) == IF output_has_room(q) THEN Append(q, msg) ELSE q

(* The Connected arm: select!, branch gateway_res = gateway.next().        *)
(* select! polls a branch only while its future is not terminated.         *)
SelectGateway ==
    /\ state = "Connected" /\ pc = "select"
    /\ ~is_terminated(gateway)
    /\ LET p == poll_next(gateway, sock)
       IN  /\ p.ready
           /\ sock' = sock_after_poll(gateway, sock)
           /\ IF ~p.item.some
              THEN /\ pending' = MsgDisconnected
                   /\ pc' = "send_disconnected"
                   /\ UNCHANGED <<output, published>>
              ELSE LET msg == IF p.item.val.ok THEN MsgEvent(p.item.val.val)
                              ELSE MsgConnectionError(p.item.val.err)
                   IN  /\ output' = try_send(output, msg)
                       /\ published' = IF output_has_room(output)
                                       THEN Append(published, msg) ELSE published
                       /\ UNCHANGED <<pending, pc>>
    /\ UNCHANGED <<url, state, gateway, receiver, handles, new_message, idres,
                   requests, attempts>>
    /\ UNCHANGED <<disposed, libvars>>

(* output.send(GatewayMessage::Disconnected).await;                        *)
(* state = GatewayState::Disconnected: the Gateway and the receiver of the *)
(* old state are dropped.                                                  *)
SendDisconnected ==
    /\ pc = "send_disconnected"
    /\ output_has_room(output)
    /\ output' = Append(output, pending)
    /\ published' = Append(published, pending)
    /\ pending' = NoMessage
    /\ state' = "Disconnected"
    /\ gateway' = NoGateway
    /\ sock' = NoSock
    /\ receiver' = NoReceiver
    /\ pc' = "connect"
    /\ UNCHANGED <<url, handles, new_message, idres, requests, attempts>>
    /\ disposed' = Append(disposed, GatewayDrop(sock).closeSent)
    /\ UNCHANGED libvars

(* select!, branch new_message = receiver.select_next_some(): a queued     *)
(* command is taken.                                                       *)
SelectReceiver ==
    /\ state = "Connected" /\ pc = "select"
    /\ ~receiver.terminated
    /\ receiver.queue # <<>>
    /\ new_message' = Head(receiver.queue)
    /\ receiver' = [receiver EXCEPT !.queue = Tail(receiver.queue)]
    /\ pc' = "gateway_send"
    /\ UNCHANGED <<url, state, gateway, sock, pending, output, published, handles,
                   idres, requests, attempts>>
    /\ UNCHANGED <<disposed, libvars>>

(* receiver.select_next_some() on an empty queue whose senders are all     *)
(* gone: the receiver yields None and is terminated; the branch stays      *)
(* pending.                                                                *)
ReceiverExhausted ==
    /\ state = "Connected" /\ pc = "select"
    /\ ~receiver.terminated
    /\ receiver.queue = <<>>
    /\ handles[receiver.id] = 0
    /\ receiver' = [receiver EXCEPT !.terminated = TRUE]
    /\ UNCHANGED <<url, state, pc, gateway, sock, pending, output, published,
                   handles, new_message, idres, requests, attempts>>
    /\ UNCHANGED <<disposed, libvars>>

(* let _ = gateway.send(new_message).await *)
GatewaySend ==
    /\ pc = "gateway_send"
    /\ \E sent \in SendOutcomes(sock) :
        sock' = IF sent THEN start_send(sock, new_message) ELSE sock
    /\ new_message' = NoMessage
    /\ pc' = "select"
    /\ UNCHANGED <<url, state, gateway, pending, output, published, receiver,
                   handles, idres, requests, attempts>>
    /\ UNCHANGED <<disposed, libvars>>

(* select! with every branch terminated and no `complete =>` arm panics. *)
SelectPanic ==
    /\ state = "Connected" /\ pc = "select"
    /\ is_terminated(gateway)
    /\ receiver.terminated
    /\ pc' = "panicked"
    /\ UNCHANGED <<url, state, gateway, sock, pending, output, published, receiver,
                   handles, new_message, idres, requests, attempts>>
    /\ UNCHANGED <<disposed, libvars>>

(* Connection::send on a handle of queue q: unbounded_send(msg).is_ok()    *)
(* The message is queued only while the receiver of q exists.              *)
ConnectionSend ==
    /\ \E q \in DOMAIN handles, c \in ChannelIds :
        /\ handles[q] > 0
        /\ receiver.present /\ receiver.id = q
        /\ Len(receiver.queue) + Len(sock.wire) <= MaxCommands
        /\ receiver' = [receiver EXCEPT !.queue = Append(receiver.queue, Subscribe(c))]
    /\ UNCHANGED <<url, state, pc, gateway, sock, pending, output, published,
                   handles, new_message, idres, requests, attempts>>
    /\ UNCHANGED <<disposed, libvars>>

(* The application drops a Connection. *)
ConnectionDrop ==
    /\ \E q \in DOMAIN handles :
        /\ handles[q] > 0
        /\ handles' = [handles EXCEPT ![q] = handles[q] - 1]
    /\ UNCHANGED <<url, state, pc, gateway, sock, pending, output, published,
                   receiver, new_message, idres, requests, attempts>>
    /\ UNCHANGED <<disposed, libvars>>

----------------------------------------------------------------------------
(* Environment: the peer and the application. *)

PeerSend ==
    /\ sock.open /\ ~sock.peerClosed
    /\ Len(sock.rx) < MaxFrames
    /\ \E f \in PeerFrames : sock' = [sock EXCEPT !.rx = Append(sock.rx, f)]
    /\ UNCHANGED <<url, state, pc, gateway, pending, output, published, receiver,
                   handles, new_message, idres, requests, attempts>>
    /\ UNCHANGED <<disposed, libvars>>

PeerClose ==
    /\ sock.open /\ ~sock.peerClosed
    /\ sock' = [sock EXCEPT !.peerClosed = TRUE]
    /\ UNCHANGED <<url, state, pc, gateway, pending, output, published, receiver,
                   handles, new_message, idres, requests, attempts>>
    /\ UNCHANGED <<disposed, libvars>>

(* The iced runtime takes the next message off the subscription. *)
AppRecv ==
    /\ output # <<>>
    /\ output' = Tail(output)
    /\ UNCHANGED <<url, state, pc, gateway, sock, pending, published, receiver,
                   handles, new_message, idres, requests, attempts>>
    /\ UNCHANGED <<disposed, libvars>>

Next ==
    \/ ConnectFail
    \/ ConnectOk
    \/ IdentifySend
    \/ IdentifyRecv
    \/ SendError
    \/ PeerSend
    \/ PeerClose
    \/ AppRecv

Spec == Init /\ [][Next]_vars

(* gateway_service with the Connected arm of its loop. *)
NextFull ==
    \/ Next
    \/ SendConnected
    \/ SelectGateway
    \/ SendDisconnected
    \/ SelectReceiver
    \/ ReceiverExhausted
    \/ GatewaySend
    \/ SelectPanic
    \/ ConnectionSend
    \/ ConnectionDrop

SpecFull == Init /\ [][NextFull]_vars

(* No step of the Connected arm is ever taken: identify never returns Ok,  *)
(* so the supervisor never leaves the Disconnected arm, no command queue   *)
(* is created and no Connected, Event or Disconnected is published.        *)
ConnectedUnreachable ==
    /\ state = "Disconnected"
    /\ pc \in {"connect", "identify_send", "identify_recv", "send_error"}
    /\ receiver = NoReceiver
    /\ \A i \in 1..Len(published) : published[i].type = "ConnectionError"

----------------------------------------------------------------------------
(* Helpers for the properties. *)

Last(q) == q[Len(q)]

(* The Identify frame is on the wire of the current socket. *)
IdentifySent == sock.open /\ Len(sock.wire) >= 1 /\ sock.wire[1] = to_string(Identify(TOKEN))

(* The next frame a read of the current socket would take is f. *)
NextFrameIs(f) == sock.open /\ sock.rd < Len(sock.rx) /\ sock.rx[sock.rd + 1] = f

(* The step in which Gateway::identify returns after its read. *)
IdentifyReturns == pc = "identify_recv" /\ pc' # "identify_recv"

----------------------------------------------------------------------------
(* C1: when the first incoming frame after the Identify frame is           *)
(* Ready{session_id, user}, identify returns Ok((session_id, user)).       *)
C1_IdentifyReady ==
    [][\A s \in SessionIds, u \in Users :
        (IdentifyReturns /\ IdentifySent /\ NextFrameIs(WsText(JsonOf(EvReady(s, u)))))
            => idres' = Ok([session_id |-> s, user |-> u])]_vars

(* C2: when the first incoming frame after the Identify frame is           *)
(* Error{reason}, identify fails with GatewayError(reason).                *)
C2_IdentifyError ==
    [][\A r \in Reasons :
        (IdentifyReturns /\ IdentifySent /\ NextFrameIs(WsText(JsonOf(EvError(r)))))
            => idres' = Err(GatewayError(r))]_vars

(* C3: when the first incoming frame after the Identify frame is an event  *)
(* other than Ready or Error, identify fails with UnexpectedEvent(event).  *)
C3_IdentifyUnexpected ==
    [][\A ev \in {e \in GatewayEvents : e.type \notin {"Ready", "Error"}} :
        (IdentifyReturns /\ IdentifySent /\ NextFrameIs(WsText(JsonOf(ev))))
            => idres' = Err(UnexpectedEvent(ev))]_vars

(* C4: identify fails with UnexpectedSocketClose if and only if the peer   *)
(* has closed the socket and no frame is left to read.                     *)
C4_IdentifyClose ==
    [][IdentifyReturns =>
        ((idres' = Err(UnexpectedSocketClose))
            <=> (sock.peerClosed /\ sock.rd = Len(sock.rx)))]_vars

----------------------------------------------------------------------------
(* The peer answered the handshake on the current socket with Ready: the   *)
(* Identify frame is on the wire and the first frame the peer sent is a    *)
(* Ready event. This is the start of a connection epoch.                   *)
HandshakeAnswered ==
    /\ IdentifySent
    /\ Len(sock.rx) >= 1
    /\ \E s \in SessionIds, u \in Users : sock.rx[1] = WsText(JsonOf(EvReady(s, u)))

(* C5: per epoch the output stream carries one Connected, then Event /     *)
(* receive-error messages, then one terminating Disconnected or            *)
(* ConnectionError: Connected opens the epoch of an answered handshake,    *)
(* Event is published only while Connected, Disconnected and               *)
(* ConnectionError leave the supervisor Disconnected.                      *)
C5_EpochOrder ==
    [][published' # published =>
        LET m == Last(published')
        IN  /\ (HandshakeAnswered /\ state = "Disconnected") => m.type = "Connected"
            /\ m.type = "Connected" => (state = "Disconnected" /\ state' = "Connected")
            /\ m.type = "Event" => (state = "Connected" /\ state' = "Connected")
            /\ m.type = "Disconnected" => (state = "Connected" /\ state' = "Disconnected")
            /\ m.type = "ConnectionError" => state' = "Disconnected"]_vars

(* C6: after a successful connect and a handshake answered with            *)
(* Ready{session_id, user} the supervisor goes on to publish one Connected *)
(* for that session, and nothing is published before it.                   *)
C6_ConnectedAfterHandshake ==
    [][/\ \A s \in SessionIds, u \in Users :
            (IdentifyReturns /\ IdentifySent /\ NextFrameIs(WsText(JsonOf(EvReady(s, u)))))
                => /\ pc' = "send_connected"
                   /\ pending'.type = "Connected"
                   /\ pending'.session_id = s /\ pending'.user = u
                   /\ published' = published
       /\ (pc = "send_connected" /\ pc' # "send_connected")
            => /\ published' = Append(published, pending)
               /\ state' = "Connected"]_vars

(* C7: when the peer closes the socket of an established session, the step *)
(* that gives the socket up publishes Disconnected, leaves the supervisor  *)
(* Disconnected and back at Gateway::connect.                              *)
C7_DisconnectedOnPeerClose ==
    [][(sock.open /\ ~sock'.open /\ HandshakeAnswered /\ sock.peerClosed)
        => /\ published' = Append(published, MsgDisconnected)
           /\ state' = "Disconnected"
           /\ pc' = "connect"]_vars

----------------------------------------------------------------------------
(* The await points of gateway_service. *)
ServicePcs ==
    {"connect", "identify_send", "identify_recv", "send_error", "send_connected",
     "select", "send_disconnected", "gateway_send"}

(* C9: gateway_service never stops by itself: it is always at one of its   *)
(* await points, and there it can take its step or is waiting on input     *)
(* (the network, the peer, room in the output buffer).                     *)
C9_NeverStops ==
    /\ pc \in ServicePcs
    /\ pc = "connect" => (attempts = MaxAttempts \/ ENABLED (ConnectOk \/ ConnectFail))
    /\ pc = "identify_send" => ENABLED IdentifySend
    /\ pc = "identify_recv" => (ENABLED IdentifyRecv \/ ~poll_next(gateway, sock).ready)
    /\ pc = "send_error" => (ENABLED SendError \/ ~output_has_room(output))

(* C9 witness: a connect error and a handshake error have both been        *)
(* published and the loop is in a further attempt.                         *)
C9_Witness ==
    /\ \E i \in 1..Len(published) : published[i] = MsgConnectionError(WebsocketError)
    /\ \E i \in 1..Len(published) : published[i] = MsgConnectionError(UnexpectedSocketClose)
    /\ pc = "identify_recv"

(* C10: a failed Gateway::connect in the Disconnected state publishes one  *)
(* ConnectionError carrying the error of connect, leaves the supervisor    *)
(* Disconnected without a command queue, and the loop is back at           *)
(* Gateway::connect.                                                       *)
C10_ConnectFailure ==
    [][/\ (attempts' = attempts + 1 /\ ~gateway'.present)
            => /\ pc' = "send_error"
               /\ pending' = MsgConnectionError(
                      IF url.cannot_be_a_base THEN InvalidUrl(url) ELSE WebsocketError)
               /\ published' = published
               /\ state' = "Disconnected" /\ receiver' = NoReceiver
       /\ (pc = "send_error" /\ ~gateway.present /\ pc' # "send_error")
            => /\ published' = Append(published, pending)
               /\ state' = "Disconnected" /\ receiver' = NoReceiver
               /\ handles' = handles
               /\ pc' = "connect"]_vars

(* C10 witness: the first connect failed, its error is published, and a    *)
(* second connect has been made.                                           *)
C10_Witness ==
    /\ attempts = 2
    /\ idres = NoResult
    /\ Len(published) = 1 /\ published[1].type = "ConnectionError"
    /\ pc = "identify_send"
    /\ state = "Disconnected" /\ receiver = NoReceiver

----------------------------------------------------------------------------
(* C11: when identify fails after a successful connect, the supervisor     *)
(* publishes one ConnectionError carrying the error of identify and no     *)
(* Connected, gives the channel of the attempt up, and is back at          *)
(* Gateway::connect; identify only ever starts on the fresh channel of a   *)
(* new connect.                                                            *)
C11_IdentifyFailure ==
    [][/\ (pc \in {"identify_send", "identify_recv"}
            /\ pc' \notin {"identify_send", "identify_recv"} /\ ~idres'.ok)
            => /\ pc' = "send_error"
               /\ pending' = MsgConnectionError(idres'.err)
               /\ published' = published
               /\ state' = "Disconnected" /\ receiver' = NoReceiver
       /\ (pc = "send_error" /\ gateway.present /\ pc' # "send_error")
            => /\ published' = Append(published, MsgConnectionError(idres.err))
               /\ gateway' = NoGateway /\ sock' = NoSock
               /\ state' = "Disconnected" /\ receiver' = NoReceiver
               /\ pc' = "connect"
       /\ (pc # "identify_send" /\ pc' = "identify_send")
            => /\ pc = "connect" /\ attempts' = attempts + 1
               /\ sock' = NewSock]_vars

(* C11 witness: the handshake of the first attempt failed, its error is    *)
(* published, and a second connect has produced a fresh channel.           *)
C11_Witness ==
    /\ attempts = 2
    /\ published = <<MsgConnectionError(UnexpectedSocketClose)>>
    /\ pc = "identify_send"
    /\ sock = NewSock

----------------------------------------------------------------------------
(* The step in which the supervisor gives up the socket of a session whose *)
(* handshake the peer answered with Ready.                                 *)
DropsSession == sock.open /\ ~sock'.open /\ HandshakeAnswered

(* The frames the peer sent on the current socket after its Ready. *)
SessionFrames == SubSeq(sock.rx, 2, Len(sock.rx))

IsEventFrame(f) == f.kind = "Text" /\ from_str(f.txt).ok

IsEventMessage(m) == m.type = "Event"

(* The Event messages the frames of the session decode to, in order. *)
SessionEvents ==
    LET fs == SelectSeq(SessionFrames, IsEventFrame)
    IN  [i \in 1..Len(fs) |-> MsgEvent(from_str(fs[i].txt).val)]

(* The error poll_next yields for a frame that is not an event. *)
ReceiveErrorOf(f) ==
    IF f.kind = "Binary" THEN UnexpectedBinaryMessage
    ELSE IF f.kind = "ReadError" THEN WebsocketError
    ELSE SerializationError

(* C12: every event the channel of a session delivers is republished as    *)
(* Event(event), once and in order: when the session's socket is given up, *)
(* the Event messages published last are exactly the session's events.     *)
C12_EventsRepublished ==
    [][DropsSession =>
        LET evs == SelectSeq(published', IsEventMessage)
        IN  /\ Len(evs) >= Len(SessionEvents)
            /\ SubSeq(evs, Len(evs) - Len(SessionEvents) + 1, Len(evs)) = SessionEvents]_vars

(* C13: a frame of a session that yields Err(e) (binary or undecodable)    *)
(* is reported by a receive-error message and does not end the session:    *)
(* the socket is given up only once the peer has closed and every frame    *)
(* was read.                                                               *)
C13_ReceiveErrorKeepsSession ==
    [][(DropsSession /\ \E i \in 1..Len(SessionFrames) : ~IsEventFrame(SessionFrames[i]))
        => /\ sock.peerClosed /\ sock.rd = Len(sock.rx)
           /\ \A i \in 1..Len(SessionFrames) :
                ~IsEventFrame(SessionFrames[i])
                    => \E j \in 1..Len(published') :
                        published'[j] = MsgConnectionError(ReceiveErrorOf(SessionFrames[i]))]_vars

----------------------------------------------------------------------------
(* C18: the channel source yields None, and is reported terminated, only   *)
(* once the peer has closed the socket and every frame was read; with the  *)
(* socket open or a frame pending it does neither.                         *)
C18_NoneOnlyAfterClose ==
    gateway.present =>
        /\ poll_next(gateway, sock) = Ready(None)
            => (sock.peerClosed /\ sock.rd = Len(sock.rx))
        /\ is_terminated(gateway)
            => (sock.peerClosed /\ sock.rd = Len(sock.rx))

C20_InvalidUrl ==
    [][(attempts' = attempts + 1 /\ url.cannot_be_a_base)
        => /\ pending' = MsgConnectionError(InvalidUrl(url))
           /\ requests' = requests
           /\ gateway' = NoGateway /\ sock' = NoSock]_vars

(* C20 witness: connect has failed on the bad url without a request. *)
C20_Witness ==
    /\ url.cannot_be_a_base
    /\ attempts = 1
    /\ pending = MsgConnectionError(InvalidUrl(url))
    /\ requests = <<>>
    /\ sock = NoSock

----------------------------------------------------------------------------
(* C21: on a valid endpoint E every Gateway::connect, hence every dial     *)
(* attempt of the supervisor, issues exactly one upgrade request, to E     *)
(* with the one segment "app" appended; no other step issues a request,    *)
(* and the stored endpoint stays E, so every request of a run has the path *)
(* of the first.                                                           *)
C21_OneRequestPerAttempt ==
    [][/\ (attempts' = attempts + 1 /\ ~url.cannot_be_a_base)
            => /\ Len(requests') = Len(requests) + 1
               /\ SubSeq(requests', 1, Len(requests)) = requests
               /\ Last(requests').url.base = url.base
               /\ Last(requests').url.path = url.path \o <<"app">>
               /\ url' = url
               /\ \A i \in 1..Len(requests') : requests'[i].url = requests'[1].url
       /\ attempts' = attempts => requests' = requests]_vars

(* C21 witness: the endpoint with a path has been dialled three times, the *)
(* third request again going to E/app.                                     *)
C21_Witness ==
    /\ url = PathUrl
    /\ attempts = 3
    /\ Len(requests) = 3
    /\ requests[3].url.path = <<"quaddle", "app">>

----------------------------------------------------------------------------
(* C22: whenever a Gateway is disposed of, a close handshake has been      *)
(* started on its socket: every drop made so far sent the close.           *)
C22_CloseOnDisposal ==
    \A i \in 1..Len(disposed) : disposed[i]

----------------------------------------------------------------------------
(* C23: when the next frame of the socket is a binary frame, a pull from   *)
(* the channel yields Some(Err(UnexpectedBinaryMessage)): the frame is     *)
(* taken by that pull, and the channel is not terminated.                  *)
C23_BinaryFrame ==
    (gateway.present /\ NextFrameIs(WsBinary)) =>
        /\ poll_next(gateway, sock) = Ready(Some(Err(UnexpectedBinaryMessage)))
        /\ sock_after_poll(gateway, sock).rd = sock.rd + 1
        /\ ~is_terminated(gateway)

----------------------------------------------------------------------------
(* A direct user of the Gateway API, as struct Client (client/mod.rs) and  *)
(* tests::test_identify / test_subscribe are: it connects, identifies,     *)
(* subscribes, pulls events with try_next and drops the Gateway. pc is     *)
(* "api" between calls.                                                    *)

InitApi ==
    /\ url \in {ValidUrl, PathUrl}
    /\ state = "Disconnected"
    /\ pc = "api"
    /\ gateway = NoGateway
    /\ sock = NoSock
    /\ pending = NoMessage
    /\ output = <<>>
    /\ published = <<>>
    /\ receiver = NoReceiver
    /\ handles = [q \in 1..MaxAttempts |-> 0]
    /\ new_message = NoMessage
    /\ idres = NoResult
    /\ requests = <<>>
    /\ attempts = 0
    /\ disposed = <<>>
    /\ LibIdle

(* Gateway::connect(url, user_agent).await *)
ApiConnect ==
    /\ pc = "api" /\ ~gateway.present
    /\ attempts < MaxAttempts
    /\ \E upgraded \in BOOLEAN :
        LET res == connect(url, upgraded)
        IN  IF res.ok
            THEN gateway' = res.val /\ sock' = NewSock
            ELSE UNCHANGED <<gateway, sock>>
    /\ attempts' = attempts + 1
    /\ requests' = requests \o upgrade_requests(url)
    /\ UNCHANGED <<url, state, pc, pending, output, published, receiver, handles,
                   new_message, idres, disposed, libvars>>

(* gateway.identify(token): self.send(Identify { token }).await? *)
ApiIdentifySend ==
    /\ pc = "api" /\ gateway.present
    /\ Len(sock.wire) <= MaxCommands
    /\ \E sent \in SendOutcomes(sock) :
        IF sent
        THEN /\ sock' = start_send(sock, Identify(TOKEN))
             /\ pc' = "api_identify"
             /\ UNCHANGED idres
        ELSE /\ idres' = Err(WebsocketError)
             /\ UNCHANGED <<sock, pc>>
    /\ UNCHANGED <<url, state, gateway, pending, output, published, receiver,
                   handles, new_message, requests, attempts, disposed, libvars>>

(* gateway.identify(token): match self.try_next().await? *)
ApiIdentifyRecv ==
    /\ pc = "api_identify"
    /\ LET p == poll_next(gateway, sock)
       IN  /\ p.ready
           /\ idres' = identify(p.item)
           /\ sock' = sock_after_poll(gateway, sock)
    /\ pc' = "api"
    /\ UNCHANGED <<url, state, gateway, pending, output, published, receiver,
                   handles, new_message, requests, attempts, disposed, libvars>>

(* Gateway::subscribe(channel_id): self.send(Subscribe { channel_id }).await *)
subscribe(s, channel_id, sent) ==
    IF sent THEN start_send(s, Subscribe(channel_id)) ELSE s

(* gateway.subscribe(channel_id).await *)
ApiSubscribe ==
    /\ pc = "api" /\ gateway.present
    /\ Len(sock.wire) <= MaxCommands
    /\ \E c \in ChannelIds, sent \in SendOutcomes(sock) :
        sock' = subscribe(sock, c, sent)
    /\ UNCHANGED <<url, state, pc, gateway, pending, output, published, receiver,
                   handles, new_message, idres, requests, attempts, disposed, libvars>>

(* gateway.try_next().await *)
ApiTryNext ==
    /\ pc = "api" /\ gateway.present
    /\ LET p == poll_next(gateway, sock)
       IN  /\ p.ready
           /\ pulled' = try_next(p.item)
           /\ sock' = sock_after_poll(gateway, sock)
    /\ UNCHANGED <<url, state, pc, gateway, pending, output, published, receiver,
                   handles, new_message, idres, requests, attempts, disposed,
                   http, http_log, http_ret, codec, sf, uivars>>

(* The Gateway goes out of scope. *)
ApiDrop ==
    /\ pc = "api" /\ gateway.present
    /\ disposed' = Append(disposed, GatewayDrop(sock).closeSent)
    /\ gateway' = NoGateway
    /\ sock' = NoSock
    /\ UNCHANGED <<url, state, pc, pending, output, published, receiver, handles,
                   new_message, idres, requests, attempts, libvars>>

NextApi ==
    \/ ApiConnect
    \/ ApiIdentifySend
    \/ ApiIdentifyRecv
    \/ ApiSubscribe
    \/ ApiTryNext
    \/ ApiDrop
    \/ PeerSend
    \/ PeerClose

SpecApi == InitApi /\ [][NextApi]_vars

(* A Subscribe frame is on the wire of the current socket. *)
SubscribeSent ==
    sock.open /\ \E i \in 1..Len(sock.wire) : sock.wire[i].op = "subscribe"

(* C24: Gateway::subscribe(channel_id) writes exactly one                  *)
(* Subscribe{channel_id} frame and reads nothing; once a Subscribe is on   *)
(* the wire, a MessageCreate that is the next incoming frame is what the   *)
(* next pull from the channel yields.                                      *)
C24_SubscribeFireAndForget ==
    [][/\ (sock.open /\ sock'.open /\ Len(sock'.wire) = Len(sock.wire) + 1
            /\ Last(sock'.wire).op = "subscribe")
            => /\ \E c \in ChannelIds :
                    sock'.wire = Append(sock.wire, [op |-> "subscribe", channel_id |-> c])
               /\ sock'.rx = sock.rx /\ sock'.rd = sock.rd
               /\ pulled' = pulled
       /\ \A m \in Messages :
            (gateway.present /\ SubscribeSent
                /\ NextFrameIs(WsText(JsonOf(EvMessageCreate(m)))))
                => /\ try_next(poll_next(gateway, sock).item) = Ok(Some(EvMessageCreate(m)))
                   /\ sock_after_poll(gateway, sock).rd = sock.rd + 1]_vars

----------------------------------------------------------------------------
IsConnectedMessage(m) == m.type = "Connected"

(* C25: the Connected of an epoch carries the session_id and user of that  *)
(* epoch's own handshake and a handle to the command queue made for that   *)
(* epoch: when the socket of a session the peer opened with                *)
(* Ready{session_id, user} is given up, the last Connected published is    *)
(* the one of that session.                                                *)
C25_ConnectedCarriesOwnSession ==
    [][\A s \in SessionIds, u \in Users :
        (DropsSession /\ sock.rx[1] = WsText(JsonOf(EvReady(s, u))))
            => LET cs == SelectSeq(published', IsConnectedMessage)
               IN  /\ Len(cs) >= 1
                   /\ Last(cs).session_id = s
                   /\ Last(cs).user = u
                   /\ Last(cs).conn = [queue |-> attempts]]_vars

----------------------------------------------------------------------------
(* gateway_service is not running: its variables while another part of the *)
(* crate is exercised on its own.                                          *)
ServiceUnused ==
    /\ url = ValidUrl
    /\ state = "Disconnected"
    /\ pc = "unused"
    /\ gateway = NoGateway
    /\ sock = NoSock
    /\ pending = NoMessage
    /\ output = <<>>
    /\ published = <<>>
    /\ receiver = NoReceiver
    /\ handles = [q \in 1..MaxAttempts |-> 0]
    /\ new_message = NoMessage
    /\ idres = NoResult
    /\ requests = <<>>
    /\ attempts = 0
    /\ disposed = <<>>

----------------------------------------------------------------------------
(* The codec on its own: serde_json::to_string and serde_json::from_str on *)
(* ClientGatewayMessage and GatewayEvent (both derive Serialize and        *)
(* Deserialize).                                                           *)

CodecUsers == {[id |-> i, name |-> n] : i \in 0..MaxId, n \in {"alice", ""}}

CodecMessages ==
    {[id |-> i, author |-> a, channel |-> c, content |-> "hi"] :
        i \in 0..MaxId, a \in CodecUsers, c \in 0..MaxId}

(* Every ClientGatewayMessage over the bounded fields. *)
ClientGatewayMessages ==
    {Identify(t) : t \in {TOKEN, ""}} \cup {Subscribe(c) : c \in 0..MaxId}

(* Every GatewayEvent over the bounded fields. *)
CodecEvents ==
    {EvReady(s, u) : s \in SessionIds, u \in CodecUsers}
        \cup {EvError(r) : r \in Reasons}
        \cup {EvMessageCreate(m) : m \in CodecMessages}

(* serde_json::from_str::<ClientGatewayMessage>: tag "op", snake_case;     *)
(* a missing tag, an unknown tag or a missing field is an error.           *)
client_from_str(txt) ==
    IF "op" \notin DOMAIN txt THEN Err(SerializationError)
    ELSE IF txt.op = "identify" /\ "token" \in DOMAIN txt
         THEN Ok(Identify(txt.token))
    ELSE IF txt.op = "subscribe" /\ "channel_id" \in DOMAIN txt
         THEN Ok(Subscribe(txt.channel_id))
    ELSE Err(SerializationError)

(* Serialize and Deserialize of the enum a value belongs to. *)
encode(v) == IF v \in ClientGatewayMessages THEN to_string(v) ELSE JsonOf(v)

decode(v, txt) == IF v \in ClientGatewayMessages THEN client_from_str(txt) ELSE from_str(txt)

InitCodec ==
    /\ ServiceUnused
    /\ UiIdle
    /\ pulled = NoResult
    /\ http = NoHttp
    /\ http_log = <<>>
    /\ http_ret = NoCall
    /\ sf = NoValue
    /\ \E v \in ClientGatewayMessages \cup CodecEvents :
        codec = [stage |-> "value", value |-> v]

(* serde_json::to_string(&value) *)
CodecEncode ==
    /\ codec.stage = "value"
    /\ codec' = [stage |-> "encoded", value |-> codec.value, frame |-> encode(codec.value)]
    /\ UNCHANGED <<svars, uivars, pulled, http, http_log, http_ret, sf>>

(* serde_json::from_str(&frame) *)
CodecDecode ==
    /\ codec.stage = "encoded"
    /\ codec' = [stage |-> "decoded", value |-> codec.value, frame |-> codec.frame,
                 back |-> decode(codec.value, codec.frame)]
    /\ UNCHANGED <<svars, uivars, pulled, http, http_log, http_ret, sf>>

NextCodec ==
    \/ CodecEncode
    \/ CodecDecode

SpecCodec == InitCodec /\ [][NextCodec]_vars

(* The tag each variant is written with. *)
SnakeCase ==
    [Identify |-> "identify", Subscribe |-> "subscribe", Ready |-> "ready",
     Error |-> "error", MessageCreate |-> "message_create"]

(* C26: for every variant of ClientGatewayMessage and of GatewayEvent the  *)
(* encoding carries the variant's snake_case name in field "op"            *)
(* (outgoing) or "event" (incoming), together with the variant's fields,   *)
(* and decoding the encoding gives back an equal value.                    *)
C26_CodecRoundTrip ==
    /\ codec.stage \in {"encoded", "decoded"} =>
        LET v == codec.value
            tag == IF v.type \in {"Identify", "Subscribe"} THEN "op" ELSE "event"
        IN  /\ DOMAIN codec.frame = (DOMAIN v \ {"type"}) \cup {tag}
            /\ codec.frame[tag] = SnakeCase[v.type]
            /\ \A f \in DOMAIN v \ {"type"} : codec.frame[f] = v[f]
    /\ codec.stage = "decoded" => codec.back = Ok(codec.value)

(* C26 witness: a MessageCreate has gone through the round trip. *)
C26_Witness ==
    /\ codec.stage = "decoded"
    /\ codec.value.type = "MessageCreate"
    /\ codec.frame.event = "message_create"
    /\ codec.back.ok

----------------------------------------------------------------------------
(* Snowflake::timestamp (model/snowflake.rs).                              *)
(*                                                                         *)
(* A u64 is its four 16-bit limbs, least significant first: the value is   *)
(* w[1] + w[2] * 2^16 + w[3] * 2^32 + w[4] * 2^48. A DateTime<Utc> is its  *)
(* calendar fields; a TimeDelta is whole days plus milliseconds of a day.  *)

(* const TS_OFFSET: u64 = 22 *)
TS_OFFSET == 22

MS_PER_DAY == 86400000

(* MeowId(175928847299117063) of tests::test_timestamp:                    *)
(* 175928847299117063 = 0x0271_065A_C102_0007                              *)
ExampleId == <<7, 49410, 1626, 625>>

(* Limb values the sampled ids are built from. *)
LimbSamples == <<0, 65535, 64, 32768, 63, 1>>

SnowflakeIds ==
    {ExampleId} \cup
        {<<LimbSamples[a], LimbSamples[b], LimbSamples[c], LimbSamples[d]>> :
            a \in 1..MaxLimbSamples, b \in 1..MaxLimbSamples,
            c \in 1..MaxLimbSamples, d \in 1..MaxLimbSamples}

(* Limb j of w, zero beyond the top. *)
Limb(w, j) == IF j \in 1..4 THEN w[j] ELSE 0

(* u64 >> n, for n in 0..63 *)
shr(w, n) ==
    LET q == n \div 16
        r == n % 16
    IN  [j \in 1..4 |->
            Limb(w, j + q) \div 2 ^ r + (Limb(w, j + q + 1) % 2 ^ r) * 2 ^ (16 - r)]

(* i64::try_from(u64): fails when the top bit is set. *)
i64_try_from(w) == IF w[4] >= 32768 THEN Err([kind |-> "TryFromIntError"]) ELSE Ok(w)

(* One step of the division by d, taking in the four bits of nibble. *)
DivStep(x, d, nibble) ==
    LET r == x.rem * 16 + nibble
    IN  [quot |-> x.quot * 16 + r \div d, rem |-> r % d]

(* The division steps for the four nibbles of one limb, highest first. *)
DivLimb(x, d, limb) ==
    DivStep(DivStep(DivStep(DivStep(x, d, limb \div 4096), d, (limb \div 256) % 16),
                    d, (limb \div 16) % 16), d, limb % 16)

(* Quotient and remainder of the non-negative i64 w by d. *)
DivMod(w, d) ==
    DivLimb(DivLimb(DivLimb(DivLimb([quot |-> 0, rem |-> 0], d, w[4]), d, w[3]), d, w[2]),
            d, w[1])

(* TimeDelta::milliseconds(ms) *)
milliseconds(w) ==
    LET x == DivMod(w, MS_PER_DAY)
    IN  [days |-> x.quot, millis |-> x.rem]

DateTime(y, mo, d, h, mi, s, ms) ==
    [year |-> y, month |-> mo, day |-> d, hour |-> h, minute |-> mi, second |-> s,
     milli |-> ms]

(* pub const EPOCH: NaiveDate::from_ymd_opt(2024, 1, 1), and_hms_opt(0, 0, 0) *)
EPOCH == DateTime(2024, 1, 1, 0, 0, 0, 0)

IsLeap(y) == (y % 4 = 0 /\ y % 100 # 0) \/ y % 400 = 0

(* Days before month mo in a year that is not a leap year. *)
DaysBeforeMonth == <<0, 31, 59, 90, 120, 151, 181, 212, 243, 273, 304, 334>>

(* Days from 1970-01-01 to y-mo-d. *)
NumDays(y, mo, d) ==
    LET leaps == (y - 1) \div 4 - (y - 1) \div 100 + (y - 1) \div 400 - 477
    IN  365 * (y - 1970) + leaps + DaysBeforeMonth[mo]
            + (IF mo > 2 /\ IsLeap(y) THEN 1 ELSE 0) + d - 1

(* The date z days after 1970-01-01 (z >= 0). *)
FromNumDays(z) ==
    LET n == z + 719468
        era == n \div 146097
        doe == n - era * 146097
        yoe == (doe - doe \div 1460 + doe \div 36524 - doe \div 146096) \div 365
        doy == doe - (365 * yoe + yoe \div 4 - yoe \div 100)
        mp == (5 * doy + 2) \div 153
        mo == IF mp < 10 THEN mp + 3 ELSE mp - 9
    IN  [year |-> yoe + era * 400 + (IF mo <= 2 THEN 1 ELSE 0), month |-> mo,
         day |-> doy - (153 * mp + 2) \div 5 + 1]

(* DateTime<Utc> + TimeDelta *)
DateTimeAdd(dt, delta) ==
    LET ms == ((dt.hour * 60 + dt.minute) * 60 + dt.second) * 1000 + dt.milli
              + delta.millis
        date == FromNumDays(NumDays(dt.year, dt.month, dt.day) + delta.days
                            + ms \div MS_PER_DAY)
        t == ms % MS_PER_DAY
    IN  DateTime(date.year, date.month, date.day, t \div 3600000, (t \div 60000) % 60,
                 (t \div 1000) % 60, t % 1000)

(* timestamp with the shift one bit short. *)
timestamp_short_shift(id) ==
    LET r == i64_try_from(shr(id, TS_OFFSET - 1))
    IN  IF r.ok THEN Ok(DateTimeAdd(EPOCH, milliseconds(r.val)))
        ELSE Err([kind |-> "panic"])

(* Snowflake::timestamp:                                                   *)
(* EPOCH + TimeDelta::milliseconds(i64::try_from(self.into() >> TS_OFFSET).unwrap()) *)
timestamp(id) ==
    LET r == i64_try_from(shr(id, TS_OFFSET))
    IN  IF r.ok THEN Ok(DateTimeAdd(EPOCH, milliseconds(r.val)))
        ELSE Err([kind |-> "panic"])

InitSnowflake ==
    /\ ServiceUnused
    /\ UiIdle
    /\ pulled = NoResult
    /\ http = NoHttp
    /\ http_log = <<>>
    /\ http_ret = NoCall
    /\ codec = NoValue
    /\ \E id \in SnowflakeIds : sf = [stage |-> "id", id |-> id]

(* let dt: DateTime<Utc> = id.into(), i.e. id.timestamp() *)
SnowflakeTimestamp ==
    /\ sf.stage = "id"
    /\ sf' = [stage |-> "timestamp", id |-> sf.id, dt |-> timestamp(sf.id)]
    /\ UNCHANGED <<svars, uivars, pulled, http, http_log, http_ret, codec>>

NextSnowflake == SnowflakeTimestamp

SpecSnowflake == InitSnowflake /\ [][NextSnowflake]_vars

(* Days from 1970-01-01 to the civil date y-mo-d (proleptic Gregorian). *)
DaysFromCivil(y, mo, d) ==
    LET yy == IF mo <= 2 THEN y - 1 ELSE y
        era == yy \div 400
        yoe == yy - era * 400
        mp == IF mo > 2 THEN mo - 3 ELSE mo + 9
        doy == (153 * mp + 2) \div 5 + d - 1
        doe == yoe * 365 + yoe \div 4 - yoe \div 100 + doy
    IN  era * 146097 + doe - 719468

(* C27: Snowflake::timestamp of an id is 2024-01-01T00:00:00Z plus         *)
(* (id >> 22) milliseconds. With id >> 22 = top * 2^41 + mid * 2^10 + low  *)
(* (top: bit 63 of the id, mid: bits 32..62, low: bits 22..31), the time   *)
(* elapsed from the epoch to the timestamp, less top * 2^41 ms             *)
(* (= 25451 days 56855552 ms), is mid * 1024 + low milliseconds; and the   *)
(* id 175928847299117063 gives 2025-04-30 11:18:25 UTC.                    *)
C27_Timestamp ==
    sf.stage = "timestamp" =>
        /\ sf.dt.ok
        /\ LET dt == sf.dt.val
               days == DaysFromCivil(dt.year, dt.month, dt.day) - DaysFromCivil(2024, 1, 1)
               ms == ((dt.hour * 60 + dt.minute) * 60 + dt.second) * 1000 + dt.milli
               top == sf.id[4] \div 32768
               mid == sf.id[3] + (sf.id[4] % 32768) * 65536
               low == sf.id[2] \div 64
               m0 == ms - top * 56855552
               d1 == days - top * 25451 - (IF m0 < 0 THEN 1 ELSE 0)
               m1 == IF m0 < 0 THEN m0 + 86400000 ELSE m0
           IN  /\ dt.month \in 1..12 /\ dt.day \in 1..31
               /\ dt.hour \in 0..23 /\ dt.minute \in 0..59 /\ dt.second \in 0..59
               /\ dt.milli \in 0..999
               /\ d1 \in 0..25451
               /\ m1 % 1024 = low
               /\ d1 * 84375 + m1 \div 1024 = mid
        /\ sf.id = ExampleId =>
            /\ sf.dt.val.year = 2025 /\ sf.dt.val.month = 4 /\ sf.dt.val.day = 30
            /\ sf.dt.val.hour = 11 /\ sf.dt.val.minute = 18 /\ sf.dt.val.second = 25

(* C27 witness: the timestamp of the id of tests::test_timestamp has been  *)
(* computed.                                                               *)
C27_Witness ==
    /\ sf.stage = "timestamp"
    /\ sf.id = ExampleId
    /\ sf.dt.ok

----------------------------------------------------------------------------
(* The REST client Http (client/http.rs) on its own.                       *)

(* enum Error of client/http.rs *)
ReqwestError == [kind |-> "ReqwestError"]

ApiError == [kind |-> "ApiError"]

AuthorizationNeeded == [kind |-> "AuthorizationNeeded"]

(* Tokens the server may answer a login with. *)
HttpTokens == {"t1", "t2"}

(* The Request each method of Http builds. *)
HttpRequests ==
    [signup |-> [method |-> "POST", needs_login |-> FALSE, path |-> <<"auth", "signup">>],
     login |-> [method |-> "POST", needs_login |-> FALSE, path |-> <<"auth", "login">>],
     fetch_message |-> [method |-> "GET", needs_login |-> FALSE,
                        path |-> <<"channels", "1", "messages", "7">>],
     create_message |-> [method |-> "POST", needs_login |-> TRUE,
                         path |-> <<"channels", "1", "messages">>],
     message_history |-> [method |-> "GET", needs_login |-> TRUE,
                          path |-> <<"channels", "1", "messages">>]]

(* What the server (or the network) does with a request that was sent. *)
HttpResponses ==
    {Ok([token |-> t]) : t \in HttpTokens} \cup {Err(ApiError), Err(ReqwestError)}

(* Http::new on a url that can be a base: token: None *)
HttpNew == [present |-> TRUE, token |-> None]

(* Http::token *)
token_of(h) == h.token

(* invoke without the match on the token: the request goes out, with the   *)
(* header only when there is a token.                                      *)
invoke_unchecked(req, tok) ==
    Ok([method |-> req.method, path |-> req.path,
        authorization |-> IF req.needs_login THEN tok ELSE None])

(* Request::invoke up to req.send(): the request that goes out, with the   *)
(* AUTHORIZATION header when needs_login, or the early return.             *)
invoke(req, tok) ==
    IF req.needs_login /\ ~tok.some THEN Err(AuthorizationNeeded)
    ELSE Ok([method |-> req.method, path |-> req.path,
             authorization |-> IF req.needs_login THEN tok ELSE None])

(* Http::set_token *)
set_token(h, tok) == [h EXCEPT !.token = Some(tok)]

(* Http::logout *)
logout(h) == [h EXCEPT !.token = None]

InitHttp ==
    /\ ServiceUnused
    /\ UiIdle
    /\ pulled = NoResult
    /\ codec = NoValue
    /\ sf = NoValue
    /\ http = HttpNew
    /\ http_log = <<>>
    /\ http_ret = NoCall

(* Http::fire(req) for signup, fetch_message, create_message and           *)
(* message_history: Request::invoke with self.token.clone()                *)
HttpFire ==
    /\ \E op \in DOMAIN HttpRequests \ {"login"} :
        LET out == invoke(HttpRequests[op], http.token)
        IN  IF out.ok
            THEN /\ Len(http_log) < MaxRequests
                 /\ http_log' = Append(http_log, out.val)
                 /\ \E resp \in HttpResponses :
                        http_ret' = [op |-> op, result |-> resp]
            ELSE /\ http_ret' = [op |-> op, result |-> Err(out.err)]
                 /\ UNCHANGED http_log
    /\ UNCHANGED <<svars, uivars, pulled, codec, sf, http>>

(* Http::login: fire the login request; on Ok set_token(r.token), on Err   *)
(* return it (the `?`).                                                    *)
HttpLogin ==
    /\ LET out == invoke(HttpRequests.login, http.token)
       IN  IF out.ok
           THEN /\ Len(http_log) < MaxRequests
                /\ http_log' = Append(http_log, out.val)
                /\ \E resp \in HttpResponses :
                    /\ http_ret' = [op |-> "login",
                                    result |-> IF resp.ok THEN Ok(<<>>) ELSE resp]
                    /\ http' = IF resp.ok THEN set_token(http, resp.val.token) ELSE http
           ELSE /\ http_ret' = [op |-> "login", result |-> Err(out.err)]
                /\ UNCHANGED <<http_log, http>>
    /\ UNCHANGED <<svars, uivars, pulled, codec, sf>>

(* Http::logout *)
HttpLogout ==
    /\ http' = logout(http)
    /\ http_ret' = [op |-> "logout", result |-> Ok(<<>>)]
    /\ UNCHANGED <<svars, uivars, pulled, codec, sf, http_log>>

NextHttp ==
    \/ HttpFire
    \/ HttpLogin
    \/ HttpLogout

SpecHttp == InitHttp /\ [][NextHttp]_vars

(* The step is a call of login: login always sends its request. *)
LoginStep ==
    /\ Len(http_log') = Len(http_log) + 1
    /\ Last(http_log').path = <<"auth", "login">>

(* C28: token() is None on a new client, Some after a successful login,    *)
(* unchanged by a failed login and None after logout; a request that       *)
(* needs login, fired while token() is None, fails with                    *)
(* AuthorizationNeeded and nothing is sent.                                *)
C28_TokenState ==
    [][/\ (http_log = <<>> /\ http_ret = NoCall) => token_of(http) = None
       /\ (LoginStep /\ http_ret'.result.ok)
            => /\ token_of(http').some
               /\ token_of(http').val \in HttpTokens
       /\ (LoginStep /\ ~http_ret'.result.ok) => token_of(http') = token_of(http)
       /\ http_ret'.op = "logout" => token_of(http') = None
       /\ (http_ret'.op \in {"create_message", "message_history"}
            /\ token_of(http) = None)
            => /\ http_ret'.result = Err(AuthorizationNeeded)
               /\ http_log' = http_log
       /\ ~LoginStep /\ http_ret'.op # "logout" => token_of(http') = token_of(http)]_vars

(* C28 witness: a login succeeded and create_message went out with its    *)
(* token; then, after a logout, message_history has failed with            *)
(* AuthorizationNeeded and nothing more was sent.                          *)
C28_Witness ==
    /\ Len(http_log) = 2
    /\ http_log[1].path = <<"auth", "login">>
    /\ http_log[2].authorization = Some("t1")
    /\ token_of(http) = None
    /\ http_ret = [op |-> "message_history", result |-> Err(AuthorizationNeeded)]

----------------------------------------------------------------------------
(* C32: identify is a one-shot exchange: the call writes exactly one       *)
(* Identify frame, and when it returns with a frame waiting it has         *)
(* consumed exactly that one frame; between its start and its result the   *)
(* supervisor writes nothing else to the socket and publishes nothing.     *)
C32_IdentifyOneShot ==
    [][/\ (pc = "identify_send" /\ pc' = "identify_recv")
            => /\ sock'.wire = Append(sock.wire, to_string(Identify(TOKEN)))
               /\ sock'.rd = sock.rd
       /\ (IdentifyReturns /\ sock.rd < Len(sock.rx))
            => /\ sock'.rd = sock.rd + 1
               /\ sock'.wire = sock.wire
       /\ (IdentifyReturns /\ sock.rd = Len(sock.rx)) => sock'.rd = sock.rd
       /\ pc \in {"identify_send", "identify_recv"}
            => /\ published' = published
               /\ new_message' = NoMessage
               /\ (pc' = pc => sock'.wire = sock.wire)]_vars

----------------------------------------------------------------------------
(* gateway_service against an application that is slow to take messages:   *)
(* the peer is silent, the endpoint is reachable or not during the first   *)
(* MaxAttempts dials and down afterwards, so that the output buffer can    *)
(* fill up.                                                                *)

MaxDials == 53

(* Gateway::connect fails while the endpoint is down: the match arm        *)
(* Err(e) => output.send(ConnectionError(e)).await; continue               *)
DialFail ==
    /\ state = "Disconnected" /\ pc = "connect"
    /\ MaxAttempts <= attempts /\ attempts < MaxDials
    /\ LET res == connect(url, FALSE)
       IN  /\ ~res.ok
           /\ pending' = MsgConnectionError(res.err)
    /\ attempts' = attempts + 1
    /\ requests' = requests \o upgrade_requests(url)
    /\ pc' = "send_error"
    /\ UNCHANGED <<url, state, gateway, sock, output, published, receiver,
                   handles, new_message, idres>>
    /\ UNCHANGED <<disposed, libvars>>

NextBacklog ==
    \/ ConnectFail
    \/ ConnectOk
    \/ DialFail
    \/ IdentifySend
    \/ IdentifyRecv
    \/ SendError
    \/ AppRecv

SpecBacklog == Init /\ [][NextBacklog]_vars

(* The supervisor is at an output.send(..).await of a lifecycle event. *)
AtLifecycleSend ==
    /\ pc \in {"send_error", "send_connected", "send_disconnected"}
    /\ pending.type \in {"Connected", "Disconnected", "ConnectionError"}

(* C33: a lifecycle event handed to output.send(..).await stays pending,   *)
(* and the supervisor stays at that await, while the output buffer is      *)
(* full; the step that leaves the await has put the event on the output    *)
(* stream, so none is dropped; the buffer never holds more than its        *)
(* capacity.                                                               *)
C33_WaitingSend ==
    [][/\ Len(output) <= OutputBuffer + 1
       /\ (AtLifecycleSend /\ ~output_has_room(output))
            => /\ pc' = pc
               /\ pending' = pending
               /\ published' = published
       /\ (AtLifecycleSend /\ pc' # pc)
            => /\ output_has_room(output)
               /\ published' = Append(published, pending)
               /\ output' = Append(output, pending)
       /\ (pc \in {"send_error", "send_connected", "send_disconnected"})
            => AtLifecycleSend]_vars

(* C33 witness: the buffer is full and the supervisor waits at the send of *)
(* a ConnectionError, which it still holds.                                *)
C33_Witness ==
    /\ Len(output) = OutputBuffer + 1
    /\ pc = "send_error"
    /\ pending.type = "ConnectionError"
    /\ Len(published) = OutputBuffer + 1

----------------------------------------------------------------------------
(* The application's MainScreen (main_screen.rs) with its ChannelEditStrip *)
(* (channel_select.rs), driven by the messages iced hands to update: the   *)
(* messages of the gateway subscription, the user's input and the results  *)
(* of the Commands the screen issued. The editor and the per-message       *)
(* actions are left out; messages holds the QMessage of each entry.        *)

(* How many Connected messages the subscription delivers. *)
MaxEpochs == 2

(* How many entries MessageCreate may grow the message list to. *)
MaxShown == 2

(* How many channels the accounts' lists may grow to in total. *)
MaxChannels == 3

AppUsers == {[id |-> 1, name |-> "alice"], [id |-> 2, name |-> "bob"]}

UserIds == {u.id : u \in AppUsers}

AppChannelIds == {7, 8}

(* struct Channel *)
Channel(id, name) == [id |-> id, name |-> name]

QMessage(id, channel, author) == [id |-> id, channel |-> channel, author |-> author]

(* What Http::message_history may return for a channel. *)
Histories(c) == {<<>>, <<QMessage(2, c, 2), QMessage(1, c, 1)>>}

(* Vec::reverse *)
Reverse(q) == [i \in 1..Len(q) |-> q[Len(q) + 1 - i]]

(* enum GatewayState (main_screen.rs) *)
StateDisconnected(error) == [type |-> "Disconnected", error |-> error]

StateConnected(user, conn) == [type |-> "Connected", user |-> user, conn |-> conn]

(* enum ChannelEditStripState *)
Idle(last_error) == [type |-> "Idle", last_error |-> last_error]

Confirming(channel) == [type |-> "Confirming", channel |-> channel]

(* ChannelEditStrip::default() *)
ChannelEditStripDefault ==
    [state |-> Idle(None), expanded |-> FALSE, new_channel_name |-> "",
     new_channel_id |-> None]

(* MainScreen::new *)
MainScreenNew ==
    [selected_channel |-> 0,
     gateway_state |-> StateDisconnected(None),
     channel_edit_strip |-> ChannelEditStripDefault,
     messages |-> <<>>]

(* GatewayState::user *)
user_of(gs) == IF gs.type = "Connected" THEN Some(gs.user) ELSE None

(* Config::get_account_config(..).channels, empty when there is no account *)
account_channels(cfg, uid) == cfg[uid]

(* MainScreen::channel_at (idx counts from 0) *)
channel_at(scr, idx, cfg) ==
    LET u == user_of(scr.gateway_state)
    IN  IF ~u.some THEN None
        ELSE IF idx < Len(account_channels(cfg, u.val.id))
             THEN Some(account_channels(cfg, u.val.id)[idx + 1])
        ELSE None

(* MainScreen::channels *)
channels(scr, cfg) ==
    LET u == user_of(scr.gateway_state)
    IN  IF ~u.some THEN <<>> ELSE account_channels(cfg, u.val.id)

(* MainScreen::selected_channel *)
selected_channel(scr, cfg) == channel_at(scr, scr.selected_channel, cfg)

(* retrieve_history: the Command that calls http.message_history *)
retrieve_history(channel_id) == [kind |-> "retrieve_history", channel_id |-> channel_id]

(* MainScreen::refresh_messages: the Commands it returns *)
refresh_messages(scr, cfg) ==
    LET c == selected_channel(scr, cfg)
    IN  IF c.some THEN {retrieve_history(c.val.id)} ELSE {}

(* A Connection just handed out: its queue, whether the receiver still     *)
(* exists, and how many sends returned false.                              *)
NewConnection(alive) == [alive |-> alive, queue |-> <<>>, rejected |-> 0]

(* Connection::send on handle q: unbounded_send(msg).is_ok() *)
connection_send(cs, q, msg) ==
    IF cs[q].alive
    THEN [cs EXCEPT ![q].queue = Append(@, msg)]
    ELSE [cs EXCEPT ![q].rejected = @ + 1]

(* for channel in .. { conn.send(Subscribe { channel_id: channel.id }) } *)
RECURSIVE subscribe_all(_, _, _)
subscribe_all(cs, q, chans) ==
    IF chans = <<>> THEN cs
    ELSE subscribe_all(connection_send(cs, q, Subscribe(Head(chans).id)), q, Tail(chans))

(* on_gateway_message with the channels read before gateway_state is set:  *)
(* they are those of the user of the previous state.                       *)
on_connected_stale(scr, cfg, cs, user, q) ==
    LET scr1 == [scr EXCEPT !.gateway_state = StateConnected(user, q)]
    IN  [screen |-> scr1,
         conns |-> subscribe_all(cs, q, channels(scr, cfg)),
         cmds |-> refresh_messages(scr1, cfg)]

(* MainScreen::on_gateway_message, arm GatewayMessage::Connected *)
on_connected(scr, cfg, cs, user, q) ==
    LET scr1 == [scr EXCEPT !.gateway_state = StateConnected(user, q)]
    IN  [screen |-> scr1,
         conns |-> subscribe_all(cs, q, channels(scr1, cfg)),
         cmds |-> refresh_messages(scr1, cfg)]

(* MainScreen::update, arm HistoryRetrieved, without the check of the      *)
(* channel id (as Eyeqwst::update in lib.rs has it).                       *)
history_retrieved_unchecked(scr, cfg, channel_id, new_msgs) ==
    [scr EXCEPT !.messages = Reverse(new_msgs)]

(* MainScreen::update, arm HistoryRetrieved(channel_id, new_msgs) *)
history_retrieved(scr, cfg, channel_id, new_msgs) ==
    LET c == selected_channel(scr, cfg)
    IN  IF ~(c.some /\ c.val.id = channel_id) THEN scr
        ELSE [scr EXCEPT !.messages = Reverse(new_msgs)]

(* str::parse::<ChannelId> on what the user typed into the ID field *)
parse_channel_id(str) ==
    IF str = "7" THEN Ok(7)
    ELSE IF str = "8" THEN Ok(8)
    ELSE Err("ParseIntError")

(* The Command of ChannelAddRequested: http.message_history(channel_id, None) *)
confirm_channel(channel_id) == [kind |-> "confirm_channel", channel_id |-> channel_id]

(* enum ChannelEditMessage *)
Expanded == [type |-> "Expanded"]

Dismissed == [type |-> "Dismissed"]

NewChannelNameEdited(str) == [type |-> "NewChannelNameEdited", name |-> str]

NewChannelIdEdited(str) == [type |-> "NewChannelIdEdited", id |-> str]

ChannelAddRequested == [type |-> "ChannelAddRequested"]

ChannelExists(msgs) == [type |-> "ChannelExists", msgs |-> msgs]

ChannelError(err) == [type |-> "ChannelError", err |-> err]

(* What the user can type into the strip and press on it. *)
StripInputs ==
    {Expanded, Dismissed, ChannelAddRequested}
        \cup {NewChannelNameEdited(str) : str \in {"", "news"}}
        \cup {NewChannelIdEdited(str) : str \in {"", "8", "x"}}

(* ChannelEditStrip::update that takes a name edit in any state and adds   *)
(* the channel on ChannelError as on ChannelExists.                        *)
strip_update_lenient(strip, msg, chans, sel, msgs, cs, q) ==
    LET keep == [strip |-> strip, channels |-> chans, selected_channel |-> sel,
                 messages |-> msgs, conns |-> cs, cmds |-> {}]
    IN  IF msg.type = "Expanded" THEN [keep EXCEPT !.strip.expanded = TRUE]
        ELSE IF msg.type = "Dismissed" THEN [keep EXCEPT !.strip.expanded = FALSE]
        ELSE IF msg.type = "NewChannelNameEdited"
        THEN [keep EXCEPT !.strip.new_channel_name = msg.name]
        ELSE IF strip.state.type = "Idle" /\ msg.type = "NewChannelIdEdited"
        THEN IF msg.id = "" THEN [keep EXCEPT !.strip.new_channel_id = None]
             ELSE IF parse_channel_id(msg.id).ok
                  THEN [keep EXCEPT !.strip.new_channel_id = Some(parse_channel_id(msg.id).val)]
             ELSE keep
        ELSE IF strip.state.type = "Idle" /\ msg.type = "ChannelAddRequested"
        THEN IF ~strip.new_channel_id.some THEN keep
             ELSE [keep EXCEPT
                     !.strip = [strip EXCEPT
                         !.state = Confirming(Channel(strip.new_channel_id.val,
                                                      strip.new_channel_name)),
                         !.new_channel_id = None,
                         !.new_channel_name = ""],
                     !.cmds = {confirm_channel(strip.new_channel_id.val)}]
        ELSE IF strip.state.type = "Confirming" /\ msg.type \in {"ChannelExists", "ChannelError"}
        THEN [strip |-> [strip EXCEPT !.state = Idle(None), !.expanded = FALSE],
              channels |-> Append(chans, strip.state.channel),
              selected_channel |-> Len(chans),
              messages |-> IF msg.type = "ChannelExists" THEN Reverse(msg.msgs) ELSE msgs,
              conns |-> connection_send(cs, q, Subscribe(strip.state.channel.id)),
              cmds |-> {}]
        ELSE IF strip.state.type = "Confirming" /\ msg.type = "ChannelError"
        THEN [keep EXCEPT !.strip.state = Idle(Some(msg.err))]
        ELSE keep

(* ChannelEditStrip::update(msg, channels, selected_channel, messages,     *)
(* gateway_conn, http): the values it leaves and the Command it returns.   *)
strip_update(strip, msg, chans, sel, msgs, cs, q) ==
    LET keep == [strip |-> strip, channels |-> chans, selected_channel |-> sel,
                 messages |-> msgs, conns |-> cs, cmds |-> {}]
    IN  IF msg.type = "Expanded" THEN [keep EXCEPT !.strip.expanded = TRUE]
        ELSE IF msg.type = "Dismissed" THEN [keep EXCEPT !.strip.expanded = FALSE]
        ELSE IF strip.state.type = "Idle" /\ msg.type = "NewChannelNameEdited"
        THEN [keep EXCEPT !.strip.new_channel_name = msg.name]
        ELSE IF strip.state.type = "Idle" /\ msg.type = "NewChannelIdEdited"
        THEN IF msg.id = "" THEN [keep EXCEPT !.strip.new_channel_id = None]
             ELSE IF parse_channel_id(msg.id).ok
                  THEN [keep EXCEPT !.strip.new_channel_id = Some(parse_channel_id(msg.id).val)]
             ELSE keep
        ELSE IF strip.state.type = "Idle" /\ msg.type = "ChannelAddRequested"
        THEN IF ~strip.new_channel_id.some THEN keep
             ELSE [keep EXCEPT
                     !.strip = [strip EXCEPT
                         !.state = Confirming(Channel(strip.new_channel_id.val,
                                                      strip.new_channel_name)),
                         !.new_channel_id = None,
                         !.new_channel_name = ""],
                     !.cmds = {confirm_channel(strip.new_channel_id.val)}]
        ELSE IF strip.state.type = "Confirming" /\ msg.type = "ChannelExists"
        THEN [strip |-> [strip EXCEPT !.state = Idle(None), !.expanded = FALSE],
              channels |-> Append(chans, strip.state.channel),
              selected_channel |-> Len(chans),
              messages |-> Reverse(msg.msgs),
              conns |-> connection_send(cs, q, Subscribe(strip.state.channel.id)),
              cmds |-> {}]
        ELSE IF strip.state.type = "Confirming" /\ msg.type = "ChannelError"
        THEN [keep EXCEPT !.strip.state = Idle(Some(msg.err))]
        ELSE keep

(* MainScreen::update, arm ChannelEditStrip(msg): nothing unless           *)
(* Connected; the channel list is that of the connected user's account.    *)
channel_edit(scr, cfg, cs, msg) ==
    IF scr.gateway_state.type # "Connected"
    THEN [screen |-> scr, config |-> cfg, conns |-> cs, cmds |-> {}]
    ELSE LET uid == scr.gateway_state.user.id
             r == strip_update(scr.channel_edit_strip, msg, account_channels(cfg, uid),
                               scr.selected_channel, scr.messages, cs,
                               scr.gateway_state.conn)
         IN  [screen |-> [scr EXCEPT !.channel_edit_strip = r.strip,
                                     !.selected_channel = r.selected_channel,
                                     !.messages = r.messages],
              config |-> [cfg EXCEPT ![uid] = r.channels],
              conns |-> r.conns,
              cmds |-> r.cmds]

InitMainScreen ==
    /\ ServiceUnused
    /\ ClientIdle
    /\ screen = MainScreenNew
    /\ config \in {[uid \in UserIds |-> IF uid = 1 THEN chans ELSE <<Channel(8, "dev")>>] :
                      chans \in {<<>>, <<Channel(7, "general")>>,
                                 <<Channel(7, "general"), Channel(8, "dev")>>}}
    /\ conns = <<>>
    /\ inflight = {}
    /\ handled = NoMessage
    /\ qmsg = NoValue
    /\ HISTORY_QMSG_ID = <<0, 0>>
    /\ callers = <<>>

(* The subscription delivers Connected { user, conn, .. }: a new handle,   *)
(* whose receiver the supervisor may already have dropped.                 *)
GatewayConnected ==
    /\ Len(conns) < MaxEpochs
    /\ \E user \in AppUsers, alive \in BOOLEAN :
        LET q == Len(conns) + 1
            r == on_connected(screen, config, Append(conns, NewConnection(alive)), user, q)
        IN  /\ screen' = r.screen
            /\ conns' = r.conns
            /\ inflight' = inflight \cup r.cmds
            /\ handled' = [type |-> "Connected", user |-> user, conn |-> q]
    /\ UNCHANGED <<svars, pulled, http, http_log, http_ret, codec, sf,
                   config, qmsg, HISTORY_QMSG_ID, callers>>

(* The subscription delivers Disconnected. *)
GatewayDisconnected ==
    /\ conns # <<>>
    /\ screen' = [screen EXCEPT !.gateway_state = StateDisconnected(None)]
    /\ handled' = [type |-> "Disconnected"]
    /\ UNCHANGED <<svars, pulled, http, http_log, http_ret, codec, sf,
                   config, conns, inflight, qmsg, HISTORY_QMSG_ID, callers>>

(* The supervisor leaves an epoch: the receiver of its queue is dropped. *)
ReceiverDropped ==
    /\ \E q \in DOMAIN conns :
        /\ conns[q].alive
        /\ conns' = [conns EXCEPT ![q].alive = FALSE]
    /\ UNCHANGED <<svars, pulled, http, http_log, http_ret, codec, sf,
                   screen, config, inflight, handled, qmsg, HISTORY_QMSG_ID, callers>>

(* on_gateway_event, arm MessageCreate { message } *)
GatewayMessageCreate ==
    /\ Len(screen.messages) < MaxShown
    /\ \E c \in AppChannelIds, a \in UserIds :
        LET message == QMessage(3, c, a)
            sc == selected_channel(screen, config)
            u == user_of(screen.gateway_state)
            is_relevant == /\ sc.some /\ sc.val.id = message.channel
                           /\ u.some /\ u.val.id # message.author
        IN  /\ screen' = IF is_relevant
                         THEN [screen EXCEPT !.messages = Append(@, message)]
                         ELSE screen
            /\ handled' = [type |-> "MessageCreate", message |-> message]
    /\ UNCHANGED <<svars, pulled, http, http_log, http_ret, codec, sf,
                   config, conns, inflight, qmsg, HISTORY_QMSG_ID, callers>>

(* MainScreen::update, arm ChannelSelected(new_selected); an unchanged     *)
(* selection falls to the default arm.                                     *)
ChannelSelected ==
    /\ \E new_selected \in 0..(MaxChannels - 1) :
        /\ IF new_selected # screen.selected_channel /\ selected_channel(screen, config).some
           THEN LET scr1 == [screen EXCEPT !.selected_channel = new_selected,
                                           !.messages = <<>>]
                IN  /\ screen' = scr1
                    /\ inflight' = inflight \cup refresh_messages(scr1, config)
           ELSE UNCHANGED <<screen, inflight>>
        /\ handled' = [type |-> "ChannelSelected", idx |-> new_selected]
    /\ UNCHANGED <<svars, pulled, http, http_log, http_ret, codec, sf,
                   config, conns, qmsg, HISTORY_QMSG_ID, callers>>

(* A retrieve_history Command completes: HistoryRetrieved(channel_id, msgs) *)
(* or HistoryRetrievalError, which update ignores.                         *)
HistoryResult ==
    /\ \E cmd \in inflight :
        /\ cmd.kind = "retrieve_history"
        /\ inflight' = inflight \ {cmd}
        /\ \/ \E new_msgs \in Histories(cmd.channel_id) :
                /\ screen' = history_retrieved(screen, config, cmd.channel_id, new_msgs)
                /\ handled' = [type |-> "HistoryRetrieved", channel_id |-> cmd.channel_id,
                               msgs |-> new_msgs]
           \/ /\ handled' = [type |-> "HistoryRetrievalError"]
              /\ UNCHANGED screen
    /\ UNCHANGED <<svars, pulled, http, http_log, http_ret, codec, sf,
                   config, conns, qmsg, HISTORY_QMSG_ID, callers>>

(* MainScreen::update, arm ChannelEditStrip(msg), for what the user does   *)
(* on the strip.                                                           *)
StripInput ==
    /\ \E msg \in StripInputs :
        LET r == channel_edit(screen, config, conns, msg)
        IN  /\ screen' = r.screen
            /\ config' = r.config
            /\ conns' = r.conns
            /\ inflight' = inflight \cup r.cmds
            /\ handled' = [type |-> "ChannelEditStrip", msg |-> msg]
    /\ UNCHANGED <<svars, pulled, http, http_log, http_ret, codec, sf,
                   qmsg, HISTORY_QMSG_ID, callers>>

(* The Command of ChannelAddRequested completes: ChannelExists(msgs) or    *)
(* ChannelError(err), through MainScreen::update, arm ChannelEditStrip.    *)
StripResult ==
    /\ \E cmd \in inflight :
        /\ cmd.kind = "confirm_channel"
        /\ Len(account_channels(config, 1)) + Len(account_channels(config, 2)) < MaxChannels
        /\ \E msg \in {ChannelExists(msgs) : msgs \in Histories(cmd.channel_id)}
                        \cup {ChannelError(ReqwestError)} :
            LET r == channel_edit(screen, config, conns, msg)
            IN  /\ screen' = r.screen
                /\ config' = r.config
                /\ conns' = r.conns
                /\ inflight' = (inflight \ {cmd}) \cup r.cmds
                /\ handled' = [type |-> "ChannelEditStrip", msg |-> msg]
    /\ UNCHANGED <<svars, pulled, http, http_log, http_ret, codec, sf,
                   qmsg, HISTORY_QMSG_ID, callers>>

(* The MainScreen with its gateway messages, channel selection and         *)
(* history retrieval.                                                      *)
NextMainScreen ==
    \/ GatewayConnected
    \/ GatewayDisconnected
    \/ ReceiverDropped
    \/ GatewayMessageCreate
    \/ ChannelSelected
    \/ HistoryResult

SpecMainScreen == InitMainScreen /\ [][NextMainScreen]_vars

(* The MainScreen once it has processed its first Connected message. *)
InitChannelEdit ==
    /\ ServiceUnused
    /\ ClientIdle
    /\ config \in {[uid \in UserIds |-> IF uid = 1 THEN chans ELSE <<Channel(8, "dev")>>] :
                      chans \in {<<>>, <<Channel(7, "general")>>,
                                 <<Channel(7, "general"), Channel(8, "dev")>>}}
    /\ \E user \in AppUsers, alive \in BOOLEAN :
        LET r == on_connected(MainScreenNew, config, <<NewConnection(alive)>>, user, 1)
        IN  /\ screen = r.screen
            /\ conns = r.conns
            /\ inflight = r.cmds
            /\ handled = [type |-> "Connected", user |-> user, conn |-> 1]
    /\ qmsg = NoValue
    /\ HISTORY_QMSG_ID = <<0, 0>>
    /\ callers = <<>>

(* The connected MainScreen with its ChannelEditStrip. *)
NextChannelEdit ==
    \/ GatewayDisconnected
    \/ ReceiverDropped
    \/ StripInput
    \/ StripResult

SpecChannelEdit == InitChannelEdit /\ [][NextChannelEdit]_vars

----------------------------------------------------------------------------
(* The Subscribe commands for a channel list, in its order. *)
SubscribesFor(chans) == [i \in 1..Len(chans) |-> Subscribe(chans[i].id)]

(* C35: on every Connected message, the first and each later one, the      *)
(* application calls send on the handle carried by that message exactly    *)
(* once per channel configured for the account of the message's user, in   *)
(* the order of the list: the Subscribes are the content of that handle's  *)
(* queue (or are all refused when its receiver is already gone), no other  *)
(* handle is touched, and the screen holds the message's user and handle.  *)
C35_SubscribePerChannel ==
    [][Len(conns') = Len(conns) + 1 =>
        LET q == Len(conns')
            chans == account_channels(config, handled'.user.id)
        IN  /\ handled'.type = "Connected" /\ handled'.conn = q
            /\ screen'.gateway_state = StateConnected(handled'.user, q)
            /\ conns'[q].alive
                => /\ conns'[q].queue = SubscribesFor(chans)
                   /\ conns'[q].rejected = 0
            /\ ~conns'[q].alive
                => /\ conns'[q].queue = <<>>
                   /\ conns'[q].rejected = Len(chans)
            /\ \A p \in DOMAIN conns : conns'[p] = conns[p]]_vars

(* C35 witness: after a reconnect as another user: the first handle holds  *)
(* the two Subscribes of alice's channels, the second the one of bob's.    *)
C35_Witness ==
    /\ Len(conns) = 2
    /\ handled.type = "Connected" /\ handled.user.id = 2 /\ handled.conn = 2
    /\ conns[1].queue = <<Subscribe(7), Subscribe(8)>>
    /\ conns[2].queue = <<Subscribe(8)>>

(* The step is MainScreen::update(HistoryRetrieved(..)) for a completed    *)
(* retrieve_history Command.                                               *)
HistoryRetrievedStep ==
    /\ handled'.type = "HistoryRetrieved"
    /\ retrieve_history(handled'.channel_id) \in inflight
    /\ inflight' = inflight \ {retrieve_history(handled'.channel_id)}

(* C36: HistoryRetrieved(channel_id, msgs) replaces the message list (by   *)
(* msgs reversed) only if channel_id is the id of the channel selected     *)
(* when the response is processed; a response for another channel, such as *)
(* one selected earlier, leaves the message list unchanged; the selection  *)
(* is not changed by a response.                                           *)
C36_StaleHistoryIgnored ==
    [][HistoryRetrievedStep =>
        LET c == selected_channel(screen, config)
            current == c.some /\ c.val.id = handled'.channel_id
        IN  /\ current => screen'.messages = Reverse(handled'.msgs)
            /\ ~current => screen'.messages = screen.messages
            /\ screen'.selected_channel = screen.selected_channel]_vars

(* C36 witness: the response for channel 7, selected earlier, has been     *)
(* processed while channel 8 is selected: its messages are not shown.      *)
C36_Witness ==
    /\ handled.type = "HistoryRetrieved"
    /\ handled.channel_id = 7 /\ handled.msgs # <<>>
    /\ selected_channel(screen, config) = Some(Channel(8, "dev"))
    /\ screen.selected_channel = 1
    /\ screen.messages = <<>>

(* The step is ChannelEditStrip::update(msg, ..) called by the connected   *)
(* MainScreen.                                                             *)
StripStep ==
    /\ handled'.type = "ChannelEditStrip"
    /\ screen.gateway_state.type = "Connected"
    /\ screen'.gateway_state = screen.gateway_state
    /\ \A q \in DOMAIN conns : conns'[q].alive = conns[q].alive

(* C37: ChannelEditStrip.update appends a channel to the list and sends    *)
(* one Subscribe for its id only on ChannelExists received while           *)
(* Confirming; then the state is Idle and selected_channel is the index of *)
(* the appended channel. On ChannelError while Confirming the list, the    *)
(* selection and the messages are unchanged and the state is Idle with     *)
(* last_error set. Name edits, id edits and add requests received while    *)
(* Confirming change nothing.                                              *)
C37_ChannelAdd ==
    [][StripStep =>
        LET strip == screen.channel_edit_strip
            msg == handled'.msg
            uid == screen.gateway_state.user.id
            q == screen.gateway_state.conn
            confirmed == strip.state.type = "Confirming" /\ msg.type = "ChannelExists"
        IN  /\ (config' # config \/ conns' # conns) => confirmed
            /\ confirmed
                => /\ config' = [config EXCEPT ![uid] = Append(@, strip.state.channel)]
                   /\ conns' = connection_send(conns, q, Subscribe(strip.state.channel.id))
                   /\ screen'.channel_edit_strip.state = Idle(None)
                   /\ screen'.selected_channel = Len(account_channels(config', uid)) - 1
                   /\ channel_at(screen', screen'.selected_channel, config')
                        = Some(strip.state.channel)
            /\ (strip.state.type = "Confirming" /\ msg.type = "ChannelError")
                => /\ config' = config
                   /\ conns' = conns
                   /\ screen'.selected_channel = screen.selected_channel
                   /\ screen'.messages = screen.messages
                   /\ screen'.channel_edit_strip.state = Idle(Some(msg.err))
            /\ (strip.state.type = "Confirming"
                    /\ msg.type \in {"NewChannelNameEdited", "NewChannelIdEdited",
                                     "ChannelAddRequested"})
                => /\ screen' = screen
                   /\ config' = config
                   /\ conns' = conns
                   /\ inflight' = inflight]_vars

(* C37 witness: alice's list was <<general>>; channel 8 named "news" was  *)
(* confirmed: it is the second entry and selected, its Subscribe is the    *)
(* last command on the handle, and the strip is Idle.                      *)
C37_Witness ==
    /\ handled.type = "ChannelEditStrip" /\ handled.msg.type = "ChannelExists"
    /\ screen.gateway_state.type = "Connected" /\ screen.gateway_state.user.id = 1
    /\ config[1] = <<Channel(7, "general"), Channel(8, "news")>>
    /\ screen.selected_channel = 1
    /\ conns[1].queue = <<Subscribe(7), Subscribe(8)>>
    /\ screen.channel_edit_strip.state = Idle(None)
    /\ screen.messages = Reverse(handled.msg.msgs) /\ screen.messages # <<>>

----------------------------------------------------------------------------
(* A HistoryQMessage (messageview.rs) on its own: the entry of the message *)
(* list as MainScreen drives it, with the messages its view can emit and   *)
(* the results of the Commands its update returned.                        *)

(* Texts of a message and of its editor. *)
QTexts == {"hi", "hi!", "hey"}

(* enum HistoryQMsgState *)
QSending == [type |-> "Sending"]

QSendingFailed(err) == [type |-> "SendingFailed", err |-> err]

QSubmittingEdit(editor) == [type |-> "SubmittingEdit", editor |-> editor]

QDisplay == [type |-> "Display"]

QEditing(editor, last_error) ==
    [type |-> "Editing", editor |-> editor, last_error |-> last_error]

(* enum HistoryQMsgMessage *)
QMsg(type) == [type |-> type]

(* HistoryQMessage::new(msg) *)
HistoryQMessageNew(id, msg) ==
    [id |-> id, hovered |-> FALSE, state |-> QDisplay, msg |-> msg]

(* HistoryQMessage::sending(author, channel, content): QMessage::default() *)
(* with the content set.                                                   *)
HistoryQMessageSending(id, content) ==
    [id |-> id, hovered |-> FALSE, state |-> QSending,
     msg |-> [id |-> 0, content |-> content]]

(* HistoryQMessage::send: the Command that calls http.create_message *)
send_command(q) == [kind |-> "create_message", content |-> q.msg.content]

(* HistoryQMessage::update: the message it leaves and the Commands it      *)
(* returns.                                                                *)
qmessage_update(q, msg) ==
    LET keep == [qmsg |-> q, cmds |-> {}]
    IN  IF msg.type = "MouseEnter" THEN [keep EXCEPT !.qmsg.hovered = TRUE]
        ELSE IF msg.type = "MouseLeave" THEN [keep EXCEPT !.qmsg.hovered = FALSE]
        ELSE IF q.state.type = "Display" /\ msg.type = "EditInitiated"
        THEN [keep EXCEPT !.qmsg.state = QEditing(q.msg.content, None)]
        ELSE IF q.state.type = "Editing" /\ msg.type = "EditSubmitted"
        THEN [qmsg |-> [q EXCEPT !.state = QSubmittingEdit(q.state.editor)],
              cmds |-> {[kind |-> "edit_message", content |-> q.state.editor]}]
        ELSE IF q.state.type = "Editing" /\ msg.type = "EditCancelled"
        THEN [keep EXCEPT !.qmsg.state = QDisplay]
        ELSE IF q.state.type = "SubmittingEdit" /\ msg.type = "EditFailed"
        THEN [keep EXCEPT !.qmsg.state = QEditing(q.state.editor, Some(msg.err))]
        ELSE IF q.state.type = "SubmittingEdit" /\ msg.type = "EditSucceeded"
        THEN [keep EXCEPT !.qmsg.state = QDisplay, !.qmsg.msg = msg.msg]
        ELSE IF q.state.type = "Sending" /\ msg.type = "SendingFailed"
        THEN [keep EXCEPT !.qmsg.state = QSendingFailed(msg.err)]
        ELSE IF q.state.type = "Sending" /\ msg.type = "SendingSucceeded"
        THEN [keep EXCEPT !.qmsg.state = QDisplay, !.qmsg.msg = msg.msg]
        ELSE IF q.state.type = "Editing" /\ msg.type = "Editor"
        THEN [keep EXCEPT !.qmsg.state.editor = msg.text]
        ELSE keep

(* HistoryQMessage::action_buttons: the messages its buttons emit *)
action_buttons(q) ==
    IF q.state.type = "SendingFailed" THEN {QMsg("ResendInitiated")}
    ELSE IF q.state.type = "Display" THEN {QMsg("EditInitiated")}
    ELSE {}

(* A message retrieved from the server, or one just typed and being sent   *)
(* (MainScreen::update, arm Editor(SendInitiated)); its id is the first    *)
(* HistoryQMessageId.                                                      *)
InitHistoryQ ==
    /\ ServiceUnused
    /\ ClientIdle
    /\ screen = NoValue
    /\ config = <<>>
    /\ conns = <<>>
    /\ handled = NoMessage
    /\ HISTORY_QMSG_ID = <<1, 0>>
    /\ callers = <<>>
    /\ \E content \in QTexts :
        \/ /\ qmsg = HistoryQMessageNew(<<0, 0>>, [id |-> 5, content |-> content])
           /\ inflight = {}
        \/ /\ qmsg = HistoryQMessageSending(<<0, 0>>, content)
           /\ inflight = {send_command(qmsg)}

(* mouse_area(el).on_enter(MouseEnter).on_exit(MouseLeave), through       *)
(* MainScreen::update, arm HistoryMessageAction.                           *)
QMouse ==
    /\ \E msg \in {QMsg("MouseEnter"), QMsg("MouseLeave")} :
        LET r == qmessage_update(qmsg, msg)
        IN  /\ qmsg' = r.qmsg
            /\ inflight' = inflight \cup r.cmds
            /\ handled' = [type |-> "HistoryQMsg", msg |-> msg]
    /\ UNCHANGED <<svars, pulled, http, http_log, http_ret, codec, sf,
                   screen, config, conns, HISTORY_QMSG_ID, callers>>

(* The user presses one of the action buttons, shown while hovered. *)
QPress ==
    /\ qmsg.hovered
    /\ \E msg \in action_buttons(qmsg) :
        LET r == qmessage_update(qmsg, msg)
        IN  /\ qmsg' = r.qmsg
            /\ inflight' = inflight \cup r.cmds
            /\ handled' = [type |-> "HistoryQMsg", msg |-> msg]
    /\ UNCHANGED <<svars, pulled, http, http_log, http_ret, codec, sf,
                   screen, config, conns, HISTORY_QMSG_ID, callers>>

(* editor_view(editor, true): the editor and its save / cancel buttons,    *)
(* enabled while Editing.                                                  *)
QEditorInput ==
    /\ qmsg.state.type = "Editing"
    /\ \E msg \in {QMsg("EditSubmitted"), QMsg("EditCancelled")}
                    \cup {[type |-> "Editor", text |-> t] : t \in QTexts} :
        LET r == qmessage_update(qmsg, msg)
        IN  /\ qmsg' = r.qmsg
            /\ inflight' = inflight \cup r.cmds
            /\ handled' = [type |-> "HistoryQMsg", msg |-> msg]
    /\ UNCHANGED <<svars, pulled, http, http_log, http_ret, codec, sf,
                   screen, config, conns, HISTORY_QMSG_ID, callers>>

(* A Command completes: create_message gives SendingSucceeded or           *)
(* SendingFailed, edit_message gives EditSucceeded or EditFailed.          *)
QCommandResult ==
    /\ \E cmd \in inflight :
        /\ cmd.kind \in {"create_message", "edit_message"}
        /\ \E ok \in BOOLEAN :
            LET done == IF cmd.kind = "create_message" THEN "SendingSucceeded" ELSE "EditSucceeded"
                failed == IF cmd.kind = "create_message" THEN "SendingFailed" ELSE "EditFailed"
                msg == IF ok THEN [type |-> done, msg |-> [id |-> 5, content |-> cmd.content]]
                       ELSE [type |-> failed, err |-> ReqwestError]
                r == qmessage_update(qmsg, msg)
            IN  /\ qmsg' = r.qmsg
                /\ inflight' = (inflight \ {cmd}) \cup r.cmds
                /\ handled' = [type |-> "HistoryQMsg", msg |-> msg]
    /\ UNCHANGED <<svars, pulled, http, http_log, http_ret, codec, sf,
                   screen, config, conns, HISTORY_QMSG_ID, callers>>

NextHistoryQ ==
    \/ QMouse
    \/ QPress
    \/ QEditorInput
    \/ QCommandResult

SpecHistoryQ == InitHistoryQ /\ [][NextHistoryQ]_vars

(* C38: a message an action button emits is acted on in the state that     *)
(* shows the button: EditInitiated in Display gives Editing, and           *)
(* ResendInitiated in SendingFailed gives Sending with the send issued     *)
(* again.                                                                  *)
C38_ButtonsActedOn ==
    [][(handled'.type = "HistoryQMsg" /\ handled'.msg \in action_buttons(qmsg))
        => /\ (qmsg.state.type = "Display" /\ handled'.msg.type = "EditInitiated")
                => qmsg'.state.type = "Editing"
           /\ (qmsg.state.type = "SendingFailed" /\ handled'.msg.type = "ResendInitiated")
                => /\ qmsg'.state = QSending
                   /\ send_command(qmsg) \in inflight']_vars

(* A message whose send failed stays in SendingFailed whatever happens. *)
SendingFailedIsFinal ==
    [][qmsg.state.type = "SendingFailed" => qmsg'.state = qmsg.state]_vars

----------------------------------------------------------------------------
(* HistoryQMessageId::new called from several threads. HISTORY_QMSG_ID is  *)
(* an AtomicU32, held as two 16-bit limbs, least significant first.        *)

MaxThreads == 2

(* How many calls of HistoryQMessageId::new are made in all. *)
MaxCalls == 4

(* A load in place of the fetch_add: the counter is read and left as it is. *)
fetch_add_load(c) == [old |-> c, new |-> c]

(* AtomicU32::fetch_add(1, Relaxed): one atomic step that returns the old  *)
(* value and stores old + 1 modulo 2^32.                                   *)
fetch_add(c) ==
    [old |-> c,
     new |-> IF c[1] < 65535 THEN <<c[1] + 1, c[2]>>
             ELSE <<0, (c[2] + 1) % 65536>>]

(* The number of calls made so far, finished or not. *)
RECURSIVE Calls(_)
Calls(n) ==
    IF n = 0 THEN 0
    ELSE Calls(n - 1) + Len(callers[n].ids) + (IF callers[n].pc = "new" THEN 1 ELSE 0)

(* The counter at process start, or after 65535 earlier calls. *)
InitIds ==
    /\ ServiceUnused
    /\ ClientIdle
    /\ screen = NoValue
    /\ config = <<>>
    /\ conns = <<>>
    /\ inflight = {}
    /\ handled = NoMessage
    /\ qmsg = NoValue
    /\ HISTORY_QMSG_ID \in {<<0, 0>>, <<65535, 0>>}
    /\ callers = [t \in 1..MaxThreads |-> [pc |-> "idle", ids |-> <<>>]]

(* A thread calls HistoryQMessageId::new(). *)
NewCall ==
    /\ Calls(MaxThreads) < MaxCalls
    /\ \E t \in DOMAIN callers :
        /\ callers[t].pc = "idle"
        /\ callers' = [callers EXCEPT ![t].pc = "new"]
    /\ UNCHANGED <<svars, pulled, http, http_log, http_ret, codec, sf,
                   screen, config, conns, inflight, handled, qmsg, HISTORY_QMSG_ID>>

(* Self(HISTORY_QMSG_ID.fetch_add(1, Relaxed)) and the return *)
NewReturn ==
    /\ \E t \in DOMAIN callers :
        /\ callers[t].pc = "new"
        /\ HISTORY_QMSG_ID' = fetch_add(HISTORY_QMSG_ID).new
        /\ callers' = [callers EXCEPT ![t].pc = "idle",
                                      ![t].ids = Append(@, fetch_add(HISTORY_QMSG_ID).old)]
    /\ UNCHANGED <<svars, pulled, http, http_log, http_ret, codec, sf,
                   screen, config, conns, inflight, handled, qmsg>>

NextIds ==
    \/ NewCall
    \/ NewReturn

SpecIds == InitIds /\ [][NextIds]_vars

(* C39: the identifiers HistoryQMessageId::new has returned, to any        *)
(* thread and in any interleaving of the calls, are pairwise distinct, and *)
(* none of them is the value the next call will return.                    *)
C39_DistinctIds ==
    \A t1 \in DOMAIN callers, t2 \in DOMAIN callers :
        \A i \in 1..Len(callers[t1].ids), j \in 1..Len(callers[t2].ids) :
            /\ (t1 # t2 \/ i # j) => callers[t1].ids[i] # callers[t2].ids[j]
            /\ callers[t1].ids[i] # HISTORY_QMSG_ID

(* C39 witness: two calls are in progress at once, each thread already     *)
(* holds an identifier, and the counter has passed 65535.                  *)
C39_Witness ==
    /\ callers # <<>>
    /\ callers[1].pc = "new" /\ callers[2].pc = "new"
    /\ callers[1].ids = <<<<65535, 0>>>>
    /\ callers[2].ids = <<<<0, 1>>>>
    /\ HISTORY_QMSG_ID = <<1, 1>>

====
